---- MODULE Spec2Model ----
(***************************************************************************)
(* A model of the FPL entry API (am1520x/FPL_API): the HTTP endpoints and  *)
(* the service methods behind them.  One request is served at a time: the  *)
(* caller's arguments are in req, what the upstream API answers during the *)
(* request is in up, the endpoint's answer is in resp, log lists the       *)
(* upstream fetches the handler made, lp holds the values the solver left   *)
(* in the variables of the integer program, and frame is the last table a  *)
(* projection built.                                                       *)
(***************************************************************************)
EXTENDS Integers, Sequences, FiniteSets, TLC

VARIABLES pc, op, req, up, resp, log, lp, frame

vars == <<pc, op, req, up, resp, log, lp, frame>>

\* An absent (None) value is the empty sequence, a present one <<v>>.
NoneVal == <<>>
Some(v) == <<v>>
IsNone(o) == o = <<>>

SeqToSet(s) == {s[i] : i \in DOMAIN s}

RECURSIVE SumF(_, _)
SumF(f, S) ==
  IF S = {} THEN 0
  ELSE LET x == CHOOSE y \in S : TRUE IN f[x] + SumF(f, S \ {x})

RECURSIVE SubsetsOfSize(_, _)
SubsetsOfSize(S, k) ==
  IF k = 0 THEN {{}}
  ELSE IF Cardinality(S) < k THEN {}
  ELSE LET x == CHOOSE y \in S : TRUE
       IN {T \cup {x} : T \in SubsetsOfSize(S \ {x}, k - 1)}
            \cup SubsetsOfSize(S \ {x}, k)

SubsetsUpTo(S, k) == UNION {SubsetsOfSize(S, j) : j \in 0..k}

(***************************************************************************)
(* Floating-point values as exact fractions n/d in lowest terms, d >= 0;   *)
(* 1/0 is +inf, -1/0 is -inf and 0/0 is NaN, with IEEE's rules for them.   *)
(***************************************************************************)
Abs(x) == IF x < 0 THEN -x ELSE x

Sign(x) == IF x < 0 THEN -1 ELSE IF x > 0 THEN 1 ELSE 0

RECURSIVE GCD(_, _)
GCD(a, b) == IF b = 0 THEN a ELSE GCD(b, a % b)

Rat(n, d) ==
  IF d = 0 THEN [n |-> Sign(n), d |-> 0]
  ELSE LET g == GCD(Abs(n), Abs(d))
       IN [n |-> Sign(d) * (n \div g), d |-> Abs(d) \div g]

Whole(k) == Rat(k, 1)
Zero == Whole(0)
One == Whole(1)
NaN == Rat(0, 0)
PosInf == Rat(1, 0)

IsNaN(a) == a.d = 0 /\ a.n = 0
IsFinite(a) == a.d # 0

RMul(a, b) == Rat(a.n * b.n, a.d * b.d)

RAdd(a, b) ==
  IF a.d = 0 /\ b.d = 0 THEN (IF a.n = b.n THEN a ELSE NaN)
  ELSE Rat(a.n * b.d + b.n * a.d, a.d * b.d)

RSub(a, b) == RAdd(a, [n |-> -b.n, d |-> b.d])

\* IEEE division (numpy float64): x/0 is an infinity, 0/0 is NaN.
RDiv(a, b) ==
  IF IsNaN(a) \/ IsNaN(b) THEN NaN
  ELSE IF b.d = 0 THEN (IF a.d = 0 THEN NaN ELSE Zero)
  ELSE Rat(a.n * b.d * (IF b.n < 0 THEN -1 ELSE 1), a.d * Abs(b.n))

\* Comparisons; any comparison with NaN is false.
RLe(a, b) == ~IsNaN(a) /\ ~IsNaN(b) /\ (a = b \/ a.n * b.d < b.n * a.d
                                            \/ (a.d = 0 /\ b.d = 0 /\ a.n < b.n))
RLt(a, b) == RLe(a, b) /\ a # b
RGe(a, b) == RLe(b, a)
RGt(a, b) == RLt(b, a)

\* pandas Series.sum / max / mean: nulls are skipped.
RECURSIVE SumSkipNa(_)
SumSkipNa(xs) ==
  IF xs = <<>> THEN Zero
  ELSE IF IsNaN(Head(xs)) THEN SumSkipNa(Tail(xs))
  ELSE RAdd(Head(xs), SumSkipNa(Tail(xs)))

NotNa(xs) == SelectSeq(xs, LAMBDA x : ~IsNaN(x))

MaxSkipNa(xs) ==
  LET S == SeqToSet(NotNa(xs)) IN CHOOSE m \in S : \A x \in S : RLe(x, m)

MeanSkipNa(xs) ==
  IF NotNa(xs) = <<>> THEN NaN
  ELSE RDiv(SumSkipNa(xs), Whole(Len(NotNa(xs))))

\* format(x, ".kf"): x rounded to k decimals, ties to even.
Fmt(x, k) ==
  IF ~IsFinite(x) THEN x
  ELSE LET scale == IF k = 1 THEN 10 ELSE 100
           num == x.n * scale
           q == num \div x.d
           rem == num - q * x.d
           round_up == 2 * rem > x.d \/ (2 * rem = x.d /\ q % 2 = 1)
       IN Rat(IF round_up THEN q + 1 ELSE q, scale)

(***************************************************************************)
(* Bounds of the model.                                                    *)
(***************************************************************************)
MaxExtra == 2        \* catalogue players beyond the manager's fifteen
MaxUnknown == 2      \* picks whose id the catalogue does not hold
MaxAllowance == 2    \* largest transfer allowance a caller asks for
MaxStray == 1        \* variables a failed solve may leave at 1

(***************************************************************************)
(* Program constants of optimize_transfer.                                 *)
(***************************************************************************)
SquadSize == 15
TransferLimit == 1
QuotaGKP == 2
QuotaDEF == 5
QuotaMID == 5
QuotaFWD == 3
ClubCap == 3
LpStatusOptimal == 1

(***************************************************************************)
(* Upstream data the requests are served from.                             *)
(***************************************************************************)
PosGKP == 1
PosDEF == 2
PosMID == 3
PosFWD == 4

Player(i, t, club, cost, ep) ==
  [id |-> i, element_type |-> t, team |-> club, team_code |-> 10 * club,
   now_cost |-> cost, ep_next |-> ep]

BaseType(i) ==
  IF i <= 2 THEN PosGKP ELSE IF i <= 7 THEN PosDEF
  ELSE IF i <= 12 THEN PosMID ELSE PosFWD

\* The manager's fifteen: a legal squad, three players from each of five clubs.
BasePlayers == [i \in 1..15 |-> Player(i, BaseType(i), ((i - 1) % 5) + 1, 5, 2)]

ExtraKinds ==
  { [element_type |-> PosFWD, club |-> 6, now_cost |-> 5, ep_next |-> 5],
    [element_type |-> PosMID, club |-> 1, now_cost |-> 5, ep_next |-> 6],
    [element_type |-> PosDEF, club |-> 6, now_cost |-> 9, ep_next |-> 7],
    [element_type |-> PosGKP, club |-> 7, now_cost |-> 4, ep_next |-> 1] }

\* The extra players of a catalogue, listed by rising expected points.
RECURSIVE KindSeq(_)
KindSeq(S) ==
  IF S = {} THEN <<>>
  ELSE LET x == CHOOSE y \in S : \A z \in S : y.ep_next <= z.ep_next
       IN <<x>> \o KindSeq(S \ {x})

ExtraSeqs == {KindSeq(S) : S \in SubsetsUpTo(ExtraKinds, MaxExtra)}

Catalogue(xs) ==
  BasePlayers \o
    [j \in 1..Len(xs) |->
       Player(15 + j, xs[j].element_type, xs[j].club, xs[j].now_cost, xs[j].ep_next)]

Catalogues == {Catalogue(xs) : xs \in ExtraSeqs}

Pick(e, m) == [element |-> e, multiplier |-> m]

\* Fifteen picks, the last k of them players the catalogue no longer holds.
SquadPicks(k) ==
  [i \in 1..15 |-> Pick(IF i > 15 - k THEN 90 + i ELSE i, IF i > 11 THEN 0 ELSE 1)]

PickLists == {SquadPicks(k) : k \in 0..MaxUnknown} \cup {<<>>}

FetchFailed == [ok |-> FALSE]

PicksAnswers ==
  {FetchFailed} \cup
  { [ok |-> TRUE, picks |-> ps, entry_history |-> eh] :
      ps \in PickLists,
      eh \in { [value |-> 74, bank |-> 0], [value |-> 75, bank |-> 0],
               [value |-> 75, bank |-> 5] } }

Event(i, cur, nxt, fin) ==
  [id |-> i, is_current |-> cur, is_next |-> nxt, finished |-> fin]

SeasonEvents ==
  <<Event(8, FALSE, FALSE, TRUE), Event(9, TRUE, FALSE, FALSE),
    Event(10, FALSE, TRUE, FALSE)>>

BootstrapAnswers ==
  {FetchFailed} \cup
  { [ok |-> TRUE, elements |-> c, events |-> SeasonEvents] : c \in Catalogues } \cup
  { [ok |-> TRUE, elements |-> Catalogue(<<>>), events |-> <<>>] }

(***************************************************************************)
(* FPLEntryService.get_current_event (its fetch is made by the caller).    *)
(***************************************************************************)
\* A resolution that falls back to the first finished gameweek listed.
EarliestFinishedEvent(data) ==
  LET events == data.events
      current == SelectSeq(events, LAMBDA e : e.is_current)
      nxt == SelectSeq(events, LAMBDA e : e.is_next)
      finished == SelectSeq(events, LAMBDA e : e.finished)
  IN IF current # <<>> THEN Some(current[1].id)
     ELSE IF nxt # <<>> THEN Some(nxt[1].id)
     ELSE IF finished # <<>> THEN Some(finished[1].id)
     ELSE NoneVal

get_current_event(data) ==
  LET events == data.events
      current == SelectSeq(events, LAMBDA e : e.is_current)
      nxt == SelectSeq(events, LAMBDA e : e.is_next)
      finished == SelectSeq(events, LAMBDA e : e.finished)
  IN IF current # <<>> THEN Some(current[1].id)
     ELSE IF nxt # <<>> THEN Some(nxt[1].id)
     ELSE IF finished # <<>> THEN Some(finished[Len(finished)].id)
     ELSE NoneVal

(***************************************************************************)
(* FPLEntryService.optimize_transfer: the integer program and its solver.  *)
(***************************************************************************)
Bit(b) == IF b THEN 1 ELSE 0

Index(df) == DOMAIN df

Objective(df, squad) == SumF([i \in Index(df) |-> df[i].ep_next], squad)

CountType(df, squad, t) == Cardinality({i \in squad : df[i].element_type = t})

TransferLogic(df, current_team_ids, squad, transfer_in) ==
  \A i \in Index(df) :
    IF df[i].id \notin SeqToSet(current_team_ids)
      THEN Bit(i \in transfer_in) >= Bit(i \in squad)
      ELSE Bit(i \in transfer_in) = 0

\* The squad constraints with a budget that must be undercut.
SquadConstraintsUnderBudget(df, total_budget, squad) ==
  /\ Cardinality(squad) = SquadSize
  /\ SumF([i \in Index(df) |-> df[i].now_cost], squad) < total_budget
  /\ CountType(df, squad, PosGKP) = QuotaGKP
  /\ CountType(df, squad, PosDEF) = QuotaDEF
  /\ CountType(df, squad, PosMID) = QuotaMID
  /\ CountType(df, squad, PosFWD) = QuotaFWD
  /\ \A team_id \in {df[i].team_code : i \in Index(df)} :
       Cardinality({i \in squad : df[i].team_code = team_id}) <= ClubCap

\* Lines 243 and 255-266: the constraints on the squad variables alone.
SquadConstraints(df, total_budget, squad) ==
  /\ Cardinality(squad) = SquadSize
  /\ SumF([i \in Index(df) |-> df[i].now_cost], squad) <= total_budget
  /\ CountType(df, squad, PosGKP) = QuotaGKP
  /\ CountType(df, squad, PosDEF) = QuotaDEF
  /\ CountType(df, squad, PosMID) = QuotaMID
  /\ CountType(df, squad, PosFWD) = QuotaFWD
  /\ \A team_id \in {df[i].team_code : i \in Index(df)} :
       Cardinality({i \in squad : df[i].team_code = team_id}) <= ClubCap

\* Lines 245-253: the constraints that involve the transfer variables.
TransferConstraints(df, current_team_ids, squad, transfer_in) ==
  /\ TransferLogic(df, current_team_ids, squad, transfer_in)
  /\ Cardinality(transfer_in) <= TransferLimit

\* What a solve that found no solution may leave in the variables.
Unsolved(df) ==
  { [squad |-> s, transfer_in |-> t] :
      s \in SubsetsUpTo(Index(df), MaxStray),
      t \in SubsetsUpTo(Index(df), MaxStray) }

\* The 0/1 assignments that satisfy every constraint of the model.
Feasible(df, current_team_ids, total_budget) ==
  LET squads == {s \in SubsetsOfSize(Index(df), SquadSize) :
                   SquadConstraints(df, total_budget, s)}
  IN { a \in { [squad |-> s, transfer_in |-> t] :
                 s \in squads, t \in SubsetsUpTo(Index(df), TransferLimit) } :
         TransferConstraints(df, current_team_ids, a.squad, a.transfer_in) }

solve(df, current_team_ids, total_budget) ==
  LET feasible == Feasible(df, current_team_ids, total_budget)
      values == {Objective(df, a.squad) : a \in feasible}
      best == CHOOSE v \in values : \A w \in values : w <= v
  IN IF feasible # {}
       THEN { [status |-> LpStatusOptimal, squad |-> a.squad,
               transfer_in |-> a.transfer_in] :
                a \in {b \in feasible : Objective(df, b.squad) = best} }
       ELSE { [status |-> -1, squad |-> a.squad, transfer_in |-> a.transfer_in] :
                a \in {b \in Unsolved(df) :
                         Cardinality(b.squad) + Cardinality(b.transfer_in)
                           <= MaxStray} }

Nothing == <<>>

\* How a call ends: an exception, or a returned value; with the fetches it made.
Raised(exc, lg) ==
  [raised |-> TRUE, exc |-> exc, log |-> lg, lp |-> Nothing, frame |-> Nothing]
Returned(v, lg) ==
  [raised |-> FALSE, value |-> v, log |-> lg, lp |-> Nothing, frame |-> Nothing]

IndexSeq(df) == [i \in 1..Len(df) |-> i]

CatalogueIds(df) == {df[i].id : i \in Index(df)}

\* df[df['id'] == old_id].iloc[0]
RowOf(df, old_id) ==
  df[CHOOSE i \in Index(df) :
       /\ df[i].id = old_id
       /\ \A j \in Index(df) : df[j].id = old_id => i <= j]

TransferInList(df, sol) ==
  LET chosen == SelectSeq(IndexSeq(df), LAMBDA i : i \in sol.transfer_in)
  IN [k \in 1..Len(chosen) |->
        [id |-> df[chosen[k]].id, team |-> df[chosen[k]].team,
         position |-> df[chosen[k]].element_type,
         cost |-> df[chosen[k]].now_cost, ep_next |-> df[chosen[k]].ep_next]]

NewSquadIds(df, sol) == {df[i].id : i \in sol.squad}

TransferOutList(df, current_team_ids, sol) ==
  LET gone == SelectSeq(current_team_ids,
                        LAMBDA old_id : old_id \notin NewSquadIds(df, sol))
  IN [k \in 1..Len(gone) |->
        [id |-> gone[k], team |-> RowOf(df, gone[k]).team,
         position |-> RowOf(df, gone[k]).element_type,
         cost |-> RowOf(df, gone[k]).now_cost]]

\* Lines 271-304: read the variables back and build the result.
ExtractResult(df, current_team_ids, gameweek, sol, lg) ==
  IF \E k \in DOMAIN current_team_ids :
       /\ current_team_ids[k] \notin NewSquadIds(df, sol)
       /\ current_team_ids[k] \notin CatalogueIds(df)
    THEN [Raised("IndexError", lg) EXCEPT !.lp = sol]
    ELSE LET tin == TransferInList(df, sol) IN
         [Returned(
           [gameweek |-> gameweek,
            optimization_status |->
              IF sol.status = LpStatusOptimal THEN "success" ELSE "failed",
            transfer_in |-> tin,
            transfer_out |-> TransferOutList(df, current_team_ids, sol),
            expected_points_gain |->
              SumF([k \in DOMAIN tin |-> tin[k].ep_next], DOMAIN tin)],
           lg) EXCEPT !.lp = sol]

\* Lines 216-269 once the gameweek is known.
OptimizeFrom(gameweek, u, lg) ==
  IF IsNone(gameweek)
    THEN \* get_entry_picks asks get_current_event again, then GETs event/None
         IF u.bootstrap.ok
           THEN {Raised("HTTPError", lg \o <<"bootstrap-static", "picks">>)}
           ELSE {Raised("HTTPError", lg \o <<"bootstrap-static">>)}
  ELSE IF ~u.picks.ok THEN {Raised("HTTPError", lg \o <<"picks">>)}
  ELSE IF ~u.bootstrap.ok
    THEN {Raised("HTTPError", lg \o <<"picks", "bootstrap-static">>)}
  ELSE LET picks == u.picks.picks
           current_team_ids == [k \in DOMAIN picks |-> picks[k].element]
           df == u.bootstrap.elements
           total_budget == u.picks.entry_history.value + u.picks.entry_history.bank
       IN { ExtractResult(df, current_team_ids, gameweek, sol,
                          lg \o <<"picks", "bootstrap-static">>) :
              sol \in solve(df, current_team_ids, total_budget) }

\* FPLEntryService.optimize_transfer(entry_id, gameweek): the outcomes of one call.
optimize_transfer(r, u) ==
  IF IsNone(r.gameweek)
    THEN IF ~u.bootstrap.ok
           THEN {Raised("HTTPError", <<"bootstrap-static">>)}
           ELSE OptimizeFrom(get_current_event(u.bootstrap), u, <<"bootstrap-static">>)
    ELSE OptimizeFrom(r.gameweek, u, <<>>)

\* An endpoint that answers 200 with an empty list when its handler raises.
RespondEmptyOnError(o) ==
  IF o.raised THEN [status |-> 200, body |-> <<>>]
  ELSE [status |-> 200, body |-> o.value]

\* An endpoint's try/except: the result, or HTTP 500 with the exception's text.
Respond(o) ==
  IF o.raised THEN [status |-> 500, detail |-> o.exc]
  ELSE [status |-> 200, body |-> o.value]

(***************************************************************************)
(* Upstream data of the projection pipeline: a small league.               *)
(***************************************************************************)
MaxPicks == 3        \* players in the league and in a manager's picks
MaxHorizon == 2      \* longest horizon a caller asks for

CurrentGw == get_current_event([events |-> SeasonEvents])[1]

\* A numeric field as the upstream JSON gives it: a number, or text that is none.
Num(r) == [num |-> TRUE, val |-> r]
BadText == [num |-> FALSE, val |-> NaN]

Profile(ep, form, cost, sel) ==
  [ep_next |-> ep, form |-> form, now_cost |-> cost, selected_by_percent |-> sel]

Profiles ==
  { Profile(Num(Rat(5, 2)), Num(Whole(3)), 55, Num(Rat(25, 2))),
    Profile(Num(Rat(5, 2)), Num(Rat(29, 10)), 50, Num(Whole(5))),
    Profile(Num(Zero), Num(One), 0, Num(Whole(10))),
    Profile(Num(Whole(4)), Num(Rat(9, 10)), 45, Num(Rat(1, 2))),
    Profile(BadText, BadText, 40, BadText) }

SecondProfile == Profile(Num(Whole(6)), Num(Whole(3)), 60, Num(Whole(30)))

RestProfile == Profile(Num(Whole(3)), Num(Whole(2)), 50, Num(Whole(8)))

Element(i, pr) ==
  [id |-> i, team |-> i, element_type |-> ((i - 1) % 4) + 1,
   web_name |-> i, now_cost |-> pr.now_cost, ep_next |-> pr.ep_next,
   form |-> pr.form, selected_by_percent |-> pr.selected_by_percent]

League(p1, p2) ==
  [i \in 1..MaxPicks |->
     Element(i, IF i = 1 THEN p1 ELSE IF i = 2 THEN p2 ELSE RestProfile)]

TeamRows == [t \in 1..MaxPicks |-> [id |-> t, short_name |-> t]]

TypeRows == [t \in 1..4 |-> [id |-> t, singular_name_short |-> t]]

LeagueAnswers ==
  {FetchFailed} \cup
  { [ok |-> TRUE, elements |-> League(p1, p2), teams |-> TeamRows,
     element_types |-> TypeRows, events |-> SeasonEvents] :
      p1 \in Profiles, p2 \in {SecondProfile} } \cup
  { [ok |-> TRUE, elements |-> <<>>, teams |-> TeamRows,
     element_types |-> TypeRows, events |-> SeasonEvents],
    [ok |-> TRUE, elements |-> League(RestProfile, RestProfile), teams |-> TeamRows,
     element_types |-> TypeRows, events |-> <<>>] }

\* One gameweek of a player's history.
Hist(round, minutes, points, home) ==
  [round |-> round, minutes |-> minutes, total_points |-> points, was_home |-> home]

Histories ==
  { <<>>,
    <<Hist(8, 90, 2, FALSE), Hist(9, 90, 6, TRUE)>>,
    <<Hist(8, 10, 1, TRUE), Hist(9, 20, 1, FALSE)>>,
    <<Hist(7, 90, 5, TRUE), Hist(8, 0, 0, FALSE)>> }

SummaryAnswers == {FetchFailed} \cup {[ok |-> TRUE, history |-> h] : h \in Histories}

SecondSummary == [ok |-> TRUE, history |-> <<Hist(9, 90, 8, TRUE)>>]

RestSummary == [ok |-> TRUE, history |-> <<Hist(9, 30, 1, FALSE)>>]

\* What /element-summary/{id}/ answers, per player.
SummaryTables ==
  { [i \in 1..MaxPicks |-> IF i = 1 THEN s1 ELSE IF i = 2 THEN s2 ELSE RestSummary] :
      s1 \in SummaryAnswers, s2 \in {SecondSummary} }

Fx(event, id, h, a, hd, ad) ==
  [event |-> event, id |-> id, team_h |-> h, team_a |-> a,
   team_h_difficulty |-> hd, team_a_difficulty |-> ad]

FirstWeekFixtures ==
  { FetchFailed, [ok |-> TRUE, rows |-> <<>>],
    [ok |-> TRUE, rows |-> <<Fx(10, 1, 1, 2, 2, 4)>>] }

LaterWeekFixtures ==
  { FetchFailed,
    [ok |-> TRUE, rows |-> <<Fx(11, 13, 3, 1, 1, 2), Fx(11, 12, 2, 1, 3, 5)>>] }

\* What /fixtures/?event={ev} answers, per gameweek after the current one.
FixtureTables ==
  { [ev \in (CurrentGw + 1)..(CurrentGw + MaxHorizon + 1) |->
       IF ev = CurrentGw + 1 THEN f1
       ELSE IF ev = CurrentGw + 2 THEN f2 ELSE [ok |-> TRUE, rows |-> <<>>]] :
      f1 \in FirstWeekFixtures, f2 \in LaterWeekFixtures }

\* The manager's picks: the first n players, the last one benched; or a pick of
\* a player the league does not hold.
LeaguePicks(n) == [i \in 1..n |-> Pick(i, IF i = n /\ n > 1 THEN 0 ELSE 1)]

LeaguePickLists ==
  {LeaguePicks(n) : n \in 0..MaxPicks} \cup {<<Pick(1, 1), Pick(80, 1)>>}

LeaguePicksAnswers ==
  {FetchFailed} \cup
  { [ok |-> TRUE, picks |-> ps, entry_history |-> [value |-> 1000, bank |-> 0]] :
      ps \in LeaguePickLists }

(***************************************************************************)
(* enrichment.py: the lookup tables and the two tables built from picks.   *)
(***************************************************************************)
RECURSIVE Flatten(_)
Flatten(ss) == IF ss = <<>> THEN <<>> ELSE Head(ss) \o Flatten(Tail(ss))

Times(n, x) == [i \in 1..n |-> x]

\* pd.to_numeric(errors="coerce").fillna(0.0)
ToNumeric(x) == IF x.num THEN x.val ELSE NaN
FillNa(v, dflt) == IF IsNaN(v) THEN dflt ELSE v

\* bootstrap_frames and _make_lookup_tables: el_basic, or a RuntimeError.
LookupFails(bs) ==
  ~bs.ok \/ bs.elements = <<>> \/ bs.teams = <<>> \/ bs.element_types = <<>>

el_basic(bs) ==
  [i \in DOMAIN bs.elements |->
     LET e == bs.elements[i] IN
     [element |-> e.id, team |-> e.team, element_type |-> e.element_type,
      web_name |-> e.web_name, now_cost |-> e.now_cost,
      now_price |-> Rat(e.now_cost, 10),
      ep_next |-> FillNa(ToNumeric(e.ep_next), Zero),
      form |-> FillNa(ToNumeric(e.form), Zero),
      selected_by_percent |-> FillNa(ToNumeric(e.selected_by_percent), Zero)]]

team_short(bs) == [t \in {bs.teams[i].id : i \in DOMAIN bs.teams} |-> t]

\* sorted(set(int(x) for x in element_ids))
RECURSIVE SortedSeq(_)
SortedSeq(S) ==
  IF S = {} THEN <<>>
  ELSE LET m == CHOOSE x \in S : \A y \in S : x <= y IN <<m>> \o SortedSeq(S \ {m})

\* get_element_summaries: a failed fetch is recorded as an empty summary.
HistoryOf(u, eid) ==
  IF eid \in DOMAIN u.summaries /\ u.summaries[eid].ok
    THEN u.summaries[eid].history ELSE <<>>

\* Lines 193-206: the rows of one pick for gameweek gw.
Placeholder(eid, gw) ==
  [element |-> eid, round |-> gw, minutes |-> 0, total_points |-> 0,
   was_home |-> "NaN"]

\* The records of the gameweek only: nothing for a player without one.
GwRowsDropping(u, eid, gw) ==
  LET row == SelectSeq(HistoryOf(u, eid), LAMBDA h : Some(h.round) = gw)
  IN [k \in DOMAIN row |->
        [element |-> eid, round |-> gw, minutes |-> row[k].minutes,
         total_points |-> row[k].total_points,
         was_home |-> IF row[k].was_home THEN "True" ELSE "False"]]

GwRows(u, eid, gw) ==
  LET hist == HistoryOf(u, eid)
      row == SelectSeq(hist, LAMBDA h : Some(h.round) = gw)
  IN IF hist = <<>> \/ row = <<>> THEN <<Placeholder(eid, gw)>>
     ELSE [k \in DOMAIN row |->
             [element |-> eid, round |-> gw, minutes |-> row[k].minutes,
              total_points |-> row[k].total_points,
              was_home |-> IF row[k].was_home THEN "True" ELSE "False"]]

\* A catalogue row for a pick, all-null when the catalogue lacks the player.
MetaOf(bs, eid) ==
  LET hit == SelectSeq(el_basic(bs), LAMBDA e : e.element = eid)
  IN IF hit # <<>> THEN [hit[1] EXCEPT !.team = Some(hit[1].team)]
     ELSE [element |-> eid, team |-> NoneVal, element_type |-> 0, web_name |-> 0,
           now_cost |-> 0, now_price |-> NaN, ep_next |-> NaN, form |-> NaN,
           selected_by_percent |-> NaN]

HomeAway(was_home) ==
  IF was_home = "True" THEN "H" ELSE IF was_home = "False" THEN "A" ELSE "NaN"

\* build_current_gw_stats for a non-empty picks list: the enriched rows.
build_current_gw_stats(picks, gw, u) ==
  LET element_ids == [k \in DOMAIN picks |-> picks[k].element]
      gw_stats == Flatten([k \in DOMAIN element_ids |-> GwRows(u, element_ids[k], gw)])
      joined(k) ==
        LET m == MetaOf(u.bootstrap, picks[k].element)
            rs == SelectSeq(gw_stats, LAMBDA r : r.element = picks[k].element)
        IN [j \in DOMAIN rs |->
              [element |-> picks[k].element, multiplier |-> picks[k].multiplier,
               team |-> m.team, web_name |-> m.web_name, now_cost |-> m.now_cost,
               now_price_x |-> m.now_price, now_price_y |-> m.now_price,
               ep_next |-> m.ep_next, form |-> m.form,
               selected_by_percent |-> m.selected_by_percent,
               gw |-> rs[j].round, minutes |-> rs[j].minutes,
               points |-> rs[j].total_points,
               home_away |-> HomeAway(rs[j].was_home)]]
  IN Flatten([k \in DOMAIN picks |-> joined(k)])

\* The fetches build_current_gw_stats makes.
CurrentGwFetches(picks) ==
  <<"bootstrap-static">> \o
    Times(Cardinality({picks[k].element : k \in DOMAIN picks}), "element-summary")

\* picks_df[["element"]].drop_duplicates()
RECURSIVE DropDuplicates(_)
DropDuplicates(xs) ==
  IF xs = <<>> THEN <<>>
  ELSE LET front == DropDuplicates(SubSeq(xs, 1, Len(xs) - 1))
           last == xs[Len(xs)]
       IN IF last \in SeqToSet(front) THEN front ELSE Append(front, last)

Events(start_gw, horizon) ==
  start_gw .. (start_gw + (IF horizon > 0 THEN horizon ELSE 0) - 1)

\* A fetch of the gameweeks that gives up on all of them when one fails.
FixturesAllOrNothing(u, events) ==
  IF \E ev \in events : ~(ev \in DOMAIN u.fixtures /\ u.fixtures[ev].ok) THEN <<>>
  ELSE Flatten([k \in 1..Cardinality(events) |-> u.fixtures[SortedSeq(events)[k]].rows])

\* get_fixtures_for_events: the rows of the gameweeks whose fetch succeeded.
get_fixtures_for_events(u, events) ==
  Flatten([k \in 1..Cardinality(events) |->
             LET ev == SortedSeq(events)[k] IN
             IF ev \in DOMAIN u.fixtures /\ u.fixtures[ev].ok
               THEN u.fixtures[ev].rows ELSE <<>>])

\* sort_values(["event", "id"])
RECURSIVE SortFixtures(_)
SortFixtures(S) ==
  IF S = {} THEN <<>>
  ELSE LET m == CHOOSE x \in S :
                  \A y \in S : x.event < y.event \/ (x.event = y.event /\ x.id <= y.id)
       IN <<m>> \o SortFixtures(S \ {m})

\* Lines 298-318: one club's next fixtures, cut at the horizon.
Bundle(fx, t, horizon, shorts) ==
  LET sub == SortFixtures({fx[k] : k \in {j \in DOMAIN fx :
                                           fx[j].team_h = t \/ fx[j].team_a = t}})
      n == IF Len(sub) = 0 THEN 0
           ELSE IF horizon < 1 THEN 1
           ELSE IF Len(sub) < horizon THEN Len(sub) ELSE horizon
      Label(c) == IF c \in DOMAIN shorts THEN [short |-> shorts[c]] ELSE [T |-> c]
      fdrs == [k \in 1..n |-> IF sub[k].team_h = t THEN sub[k].team_h_difficulty
                               ELSE sub[k].team_a_difficulty]
  IN [next_opponents |-> [k \in 1..n |-> IF sub[k].team_h = t
                                           THEN Label(sub[k].team_a)
                                           ELSE Label(sub[k].team_h)],
      next_is_home |-> [k \in 1..n |-> sub[k].team_h = t],
      next_fdr |-> fdrs,
      avg_fdr_nextN |-> IF n > 0 THEN MeanSkipNa([k \in 1..n |-> Whole(fdrs[k])])
                        ELSE NaN,
      sum_fdr_nextN |-> IF n > 0 THEN Some(SumF(fdrs, 1..n)) ELSE NoneVal]

\* build_future_stats once every pick is known to the catalogue.
build_future_stats(picks, start_gw, horizon, u) ==
  LET base == DropDuplicates([k \in DOMAIN picks |-> picks[k].element])
      fx == get_fixtures_for_events(u, Events(start_gw, horizon))
      shorts == team_short(u.bootstrap)
  IN [k \in DOMAIN base |->
        LET m == MetaOf(u.bootstrap, base[k])
            b == Bundle(fx, m.team[1], horizon, shorts)
        IN IF fx = <<>>
             THEN [element |-> base[k], team |-> m.team[1], now_price |-> m.now_price,
                   next_opponents |-> <<>>, next_is_home |-> <<>>, next_fdr |-> <<>>,
                   avg_fdr_nextN |-> Zero, sum_fdr_nextN |-> Some(0)]
             ELSE [element |-> base[k], team |-> m.team[1], now_price |-> m.now_price,
                   next_opponents |-> b.next_opponents,
                   next_is_home |-> b.next_is_home, next_fdr |-> b.next_fdr,
                   avg_fdr_nextN |-> b.avg_fdr_nextN,
                   sum_fdr_nextN |-> b.sum_fdr_nextN]]

\* base["team"].astype(int) raises when a pick is not in the catalogue.
FutureStatsFails(picks, u) ==
  \E k \in DOMAIN picks : IsNone(MetaOf(u.bootstrap, picks[k].element).team)

FutureFetches(start_gw, horizon) ==
  <<"bootstrap-static">> \o Times(Cardinality(Events(start_gw, horizon)), "fixtures")

(***************************************************************************)
(* FPLEntryService: the squad metrics.                                     *)
(***************************************************************************)
\* The names class FPLEntryService defines.
ServiceAttributes ==
  { "base_url", "session", "__init__", "_safe_float", "_get",
    "compute_expected_points_for_entry", "compute_value_efficiency",
    "compute_performance_analysis", "compute_fixture_run", "get_current_event",
    "get_entry_history", "get_entry_picks", "get_entry_transfers",
    "fetch_element_summaries", "_get_bootstrap_data", "optimize_transfer" }

\* A venue rule that leaves a player without a venue flag unadjusted.
HomeMultiplierUnflagged(home_away) ==
  IF home_away = "H" THEN Rat(11, 10) ELSE IF home_away = "A" THEN Rat(9, 10) ELSE One

HomeMultiplier(home_away) == IF home_away = "H" THEN Rat(11, 10) ELSE Rat(9, 10)

FormMultiplier(f) ==
  IF RGe(f, Whole(3)) THEN Rat(21, 20)
  ELSE IF RLt(f, One) THEN Rat(19, 20) ELSE One

\* Lines 62-68: the enriched rows joined with each player's mean difficulty,
\* and the multiplier computed from it.
MergeFuture(enriched, future) ==
  [k \in DOMAIN enriched |->
     LET hit == SelectSeq(future, LAMBDA f : f.element = enriched[k].element)
     IN [row |-> enriched[k],
         avg_fdr_nextN |-> IF hit = <<>> THEN NaN ELSE hit[1].avg_fdr_nextN]]

MaxFdr(merged) ==
  LET avgs == [k \in DOMAIN merged |-> merged[k].avg_fdr_nextN]
  IN IF NotNa(avgs) # <<>> THEN MaxSkipNa(avgs) ELSE Whole(5)

FdrMultiplier(x, max_fdr) ==
  IF ~IsNaN(x) THEN RDiv(RSub(RAdd(max_fdr, One), x), max_fdr) ELSE One

\* Lines 53-70: the table of the projection, one row per enriched row.
ProjectionTable(enriched, future) ==
  LET merged == MergeFuture(enriched, future)
      max_fdr == MaxFdr(merged)
  IN [k \in DOMAIN merged |->
        LET e == merged[k].row
            expected_basic == e.ep_next
            home_multiplier == HomeMultiplier(e.home_away)
            form_multiplier == FormMultiplier(e.form)
            fdr_multiplier == FdrMultiplier(merged[k].avg_fdr_nextN, max_fdr)
        IN [element |-> e.element, web_name |-> e.web_name, form |-> e.form,
            home_away |-> e.home_away, expected_basic |-> expected_basic,
            is_home |-> e.home_away = "H", home_multiplier |-> home_multiplier,
            form_multiplier |-> form_multiplier,
            avg_fdr_nextN |-> merged[k].avg_fdr_nextN,
            fdr_multiplier |-> fdr_multiplier,
            expected_adj |-> RMul(RMul(RMul(expected_basic, home_multiplier),
                                       form_multiplier), fdr_multiplier)]]

\* Lines 72-80: the answer built from the table.
ProjectionResult(r, table) ==
  [entry_id |-> r.entry_id, horizon |-> r.horizon,
   team_expected_points |-> SumSkipNa([k \in DOMAIN table |-> table[k].expected_adj]),
   players |-> [k \in DOMAIN table |->
                  [element |-> table[k].element, player_name |-> table[k].web_name,
                   expected_basic |-> table[k].expected_basic,
                   expected_adj |-> table[k].expected_adj]]]

\* The method's return at lines 75-80, with the table it was built from.
ProjectionOutcome(r, table, lg) ==
  [Returned(ProjectionResult(r, table), lg) EXCEPT !.frame = table]

\* compute_expected_points_for_entry from line 38 on, given the picks answer.
ExpectedPointsFrom(picks_resp, r, u) ==
  LET picks == picks_resp.picks
      bs == u.bootstrap
      current_event == get_current_event(bs)
      lg1 == <<"bootstrap-static">>
      lg2 == lg1 \o CurrentGwFetches(picks)
      lg3 == lg2 \o <<"bootstrap-static">>
  IN IF picks = <<>>
       THEN Returned([entry_id |-> r.entry_id, horizon |-> r.horizon,
                      team_expected_points |-> Zero, players |-> <<>>,
                      warning |-> "No picks data returned for this entry."], <<>>)
     ELSE IF ~bs.ok THEN Raised("HTTPError", lg1)
     ELSE IF LookupFails(bs) THEN Raised("RuntimeError", lg1 \o <<"bootstrap-static">>)
     ELSE IF IsNone(current_event) THEN Raised("TypeError", lg2)
     ELSE IF FutureStatsFails(picks, u) THEN Raised("ValueError", lg3)
     ELSE ProjectionOutcome(
            r,
            ProjectionTable(
              build_current_gw_stats(picks, current_event, u),
              build_future_stats(picks, current_event[1] + 1, r.horizon, u)),
            lg2 \o FutureFetches(current_event[1] + 1, r.horizon))

\* Line 37 calls self.fetch_entry_picks, which the class does not define.
compute_expected_points_for_entry(r, u) ==
  IF "fetch_entry_picks" \notin ServiceAttributes THEN Raised("AttributeError", <<>>)
  ELSE IF ~u.picks.ok THEN Raised("HTTPError", <<"picks">>)
  ELSE ExpectedPointsFrom(u.picks, r, u)

\* Lines 92-94: expected points per million, 0.0 without a positive price.
ValueEff(expected_basic, cost_m) ==
  IF RGt(cost_m, Zero) THEN RDiv(expected_basic, cost_m) ELSE Zero

\* sort_values("value_eff", ascending=False): ties keep their order.
RECURSIVE SortByValueEff(_, _)
SortByValueEff(rows, idx) ==
  IF idx = {} THEN <<>>
  ELSE LET m == CHOOSE i \in idx :
                  \A j \in idx : \/ RGt(rows[i].value_eff, rows[j].value_eff)
                                 \/ (rows[i].value_eff = rows[j].value_eff /\ i <= j)
       IN <<rows[m]>> \o SortByValueEff(rows, idx \ {m})

\* Lines 98-102: a recommendation for every row strictly below the threshold.
Recommend(sorted, threshold) ==
  LET low == SelectSeq(sorted, LAMBDA x : RLt(x.value_eff, threshold))
  IN [k \in DOMAIN low |->
        [text |-> "Consider transferring out", name |-> low[k].web_name,
         value_eff |-> Fmt(low[k].value_eff, 2)]]

\* Lines 90-109 on a table that has the columns ep_next and now_price.
ValueEfficiencyResult(r, table) ==
  LET rows == [k \in DOMAIN table |->
                 [element |-> table[k].element, web_name |-> table[k].web_name,
                  expected_basic |-> table[k].ep_next,
                  cost_m |-> table[k].now_price,
                  value_eff |-> ValueEff(table[k].ep_next, table[k].now_price)]]
      team_avg == MeanSkipNa([k \in DOMAIN rows |-> rows[k].value_eff])
      sorted == SortByValueEff(rows, DOMAIN rows)
  IN [entry_id |-> r.entry_id,
      team_average_value_efficiency |-> team_avg,
      players |-> [k \in DOMAIN sorted |->
                     [element |-> sorted[k].element,
                      player_name |-> sorted[k].web_name,
                      cost_m |-> sorted[k].cost_m,
                      expected_basic |-> sorted[k].expected_basic,
                      value_eff |-> sorted[k].value_eff]],
      recommendations |-> Recommend(sorted, RMul(team_avg, Rat(8, 10)))]

\* Line 91 on the enriched table: it carries the price as now_price_x and
\* now_price_y (enrichment.py line 270), so there is no column now_price.
ValueEfficiencyOf(r, enriched_df, lg) ==
  IF "now_price" \notin DOMAIN enriched_df[1] THEN Raised("KeyError", lg)
  ELSE Returned(ValueEfficiencyResult(r, enriched_df), lg)

\* compute_value_efficiency from line 84 on.
ValueEfficiencyFrom(picks_resp, r, u) ==
  LET picks == picks_resp.picks
      bs == u.bootstrap
      lg1 == <<"bootstrap-static">>
  IN IF picks = <<>>
       THEN Returned([entry_id |-> r.entry_id,
                      team_average_value_efficiency |-> Zero, players |-> <<>>,
                      warning |-> "No picks data."], <<>>)
     ELSE IF ~bs.ok THEN Raised("HTTPError", lg1)
     ELSE IF LookupFails(bs) THEN Raised("RuntimeError", lg1 \o <<"bootstrap-static">>)
     ELSE ValueEfficiencyOf(r, build_current_gw_stats(picks, get_current_event(bs), u),
                            lg1 \o CurrentGwFetches(picks))

compute_value_efficiency(r, u) ==
  IF "fetch_entry_picks" \notin ServiceAttributes THEN Raised("AttributeError", <<>>)
  ELSE IF ~u.picks.ok THEN Raised("HTTPError", <<"picks">>)
  ELSE ValueEfficiencyFrom(u.picks, r, u)

\* A labelling that puts the boundary values 2.5 and 4.0 in the middle class.
FixtureStatusOpen(x) ==
  IF RLt(x, Rat(5, 2)) THEN "favourable"
  ELSE IF RGt(x, Whole(4)) THEN "tough" ELSE "neutral"

FixtureStatus(x) ==
  IF RLe(x, Rat(5, 2)) THEN "favourable"
  ELSE IF RGe(x, Whole(4)) THEN "tough" ELSE "neutral"

\* Line 138, float(x) if x is not None else 0.0: the column keeps its None
\* values only when it holds nothing else; beside a number a None is already
\* a NaN, which the test lets through.
FloatOrZero(col) ==
  IF col # <<>> /\ \A k \in DOMAIN col : IsNaN(col[k])
    THEN [k \in DOMAIN col |-> Zero]
  ELSE col

\* Lines 138-155: the answer built from the future table.
FixtureRunResult(r, future) ==
  LET avg == FloatOrZero([k \in DOMAIN future |-> future[k].avg_fdr_nextN])
      status == [k \in DOMAIN future |-> FixtureStatus(avg[k])]
  IN [entry_id |-> r.entry_id, horizon |-> r.horizon,
      team_avg_fdr |-> Some(MeanSkipNa(avg)),
      players |-> [k \in DOMAIN future |->
                     [element |-> future[k].element,
                      now_price_m |-> future[k].now_price,
                      next_fdr |-> future[k].next_fdr,
                      avg_fdr_nextN |-> avg[k],
                      fixture_status |-> status[k]]],
      summary |->
        [favourable_players_count |->
           Cardinality({k \in DOMAIN future : status[k] = "favourable"}),
         tough_run_players_count |->
           Cardinality({k \in DOMAIN future : status[k] = "tough"})]]

\* compute_fixture_run from line 134 on.
FixtureRunFrom(picks_resp, r, u) ==
  LET picks == picks_resp.picks
      bs == u.bootstrap
      current_event == get_current_event(bs)
      lg1 == <<"bootstrap-static">>
      lg2 == lg1 \o <<"bootstrap-static">>
  IN IF picks = <<>>
       THEN Returned([entry_id |-> r.entry_id, horizon |-> r.horizon,
                      team_avg_fdr |-> NoneVal, players |-> <<>>,
                      warning |-> "No picks data."], <<>>)
     ELSE IF ~bs.ok THEN Raised("HTTPError", lg1)
     ELSE IF IsNone(current_event) THEN Raised("TypeError", lg1)
     ELSE IF LookupFails(bs) THEN Raised("RuntimeError", lg2)
     ELSE IF FutureStatsFails(picks, u) THEN Raised("ValueError", lg2)
     ELSE Returned(
            FixtureRunResult(
              r, build_future_stats(picks, current_event[1] + 1, r.horizon, u)),
            lg1 \o FutureFetches(current_event[1] + 1, r.horizon))

compute_fixture_run(r, u) ==
  IF "fetch_entry_picks" \notin ServiceAttributes THEN Raised("AttributeError", <<>>)
  ELSE IF ~u.picks.ok THEN Raised("HTTPError", <<"picks">>)
  ELSE FixtureRunFrom(u.picks, r, u)

(***************************************************************************)
(* InsightsService.generate_insights and the insights endpoint.            *)
(***************************************************************************)
BenchHaulThreshold == 4
LowPointsThreshold == 2
LowPointsStreakLen == 2
NSelect == 3
LastNFloor == 3
RecentN ==
  IF LastNFloor > LowPointsStreakLen + 1 THEN LastNFloor ELSE LowPointsStreakLen + 1
RotationMinutes == 45
RotationCount == 2
MaxOwnership == 10
MissingFdr == 5
GoodFdr == 3

Insight(title, items) == [title |-> title, items |-> items]

\* sort_values("round", ascending=False).head(n)
RECURSIVE NewestFirst(_)
NewestFirst(S) ==
  IF S = {} THEN <<>>
  ELSE LET m == CHOOSE x \in S : \A y \in S : x.round >= y.round
       IN <<m>> \o NewestFirst(S \ {m})

Head_n(xs, n) == SubSeq(xs, 1, IF Len(xs) < n THEN Len(xs) ELSE n)

\* Every record of every player, newest first, whatever last_n is.
RecentHistoriesAll(u, element_ids, last_n) ==
  [eid \in SeqToSet(element_ids) |-> NewestFirst(SeqToSet(HistoryOf(u, eid)))]

\* fetch_element_summaries, then _fetch_recent_histories: per player id, the
\* newest last_n records; a player whose fetch failed has none.
RecentHistories(u, element_ids, last_n) ==
  [eid \in SeqToSet(element_ids) |->
     Head_n(NewestFirst(SeqToSet(HistoryOf(u, eid))), last_n)]

\* The run of scores <= threshold counted from the oldest record.
RECURSIVE StreakFromOldest(_, _)
StreakFromOldest(newest_first, threshold) ==
  IF newest_first = <<>> THEN 0
  ELSE IF newest_first[Len(newest_first)].total_points <= threshold
    THEN 1 + StreakFromOldest(SubSeq(newest_first, 1, Len(newest_first) - 1), threshold)
  ELSE 0

\* Lines 61-68: the run of scores <= threshold counted from the newest record.
RECURSIVE Streak(_, _)
Streak(newest_first, threshold) ==
  IF newest_first = <<>> THEN 0
  ELSE IF Head(newest_first).total_points <= threshold
    THEN 1 + Streak(Tail(newest_first), threshold)
  ELSE 0

\* The rows of xs ordered by key, ties in their original order, nulls last.
RECURSIVE SortRows(_, _, _)
SortRows(xs, idx, ascending) ==
  IF idx = {} THEN <<>>
  ELSE LET Before(i, j) ==
             \/ (~IsNaN(xs[i].avg_fdr) /\ IsNaN(xs[j].avg_fdr))
             \/ /\ IsNaN(xs[i].avg_fdr) = IsNaN(xs[j].avg_fdr)
                /\ \/ (ascending /\ RLt(xs[i].avg_fdr, xs[j].avg_fdr))
                   \/ (~ascending /\ RGt(xs[i].avg_fdr, xs[j].avg_fdr))
                   \/ (~RLt(xs[i].avg_fdr, xs[j].avg_fdr)
                         /\ ~RGt(xs[i].avg_fdr, xs[j].avg_fdr) /\ i <= j)
           m == CHOOSE i \in idx : \A j \in idx : Before(i, j)
       IN <<xs[m]>> \o SortRows(xs, idx \ {m}, ascending)

nsmallest(n, fut) == Head_n(SortRows(fut, DOMAIN fut, TRUE), n)
nlargest(n, fut) == Head_n(SortRows(fut, DOMAIN fut, FALSE), n)

ShortOf(e) == IF IsNone(e.team) THEN NoneVal ELSE e.team

\* generate_insights: the six insights, in order.
generate_insights(enriched_df, future_df, gw, u, horizon) ==
  LET bench_hauls == SelectSeq(enriched_df,
                       LAMBDA e : e.multiplier = 0 /\ e.points >= BenchHaulThreshold)
      bench_items == [k \in DOMAIN bench_hauls |->
                        [text |-> "scored on the bench",
                         name |-> bench_hauls[k].web_name,
                         team_short |-> ShortOf(bench_hauls[k]),
                         points |-> bench_hauls[k].points]]
      starts == DropDuplicates([k \in DOMAIN enriched_df |-> enriched_df[k].element])
      recent == RecentHistories(u, starts, RecentN)
      ids == SortedSeq(DOMAIN recent)
      RowFor(eid) == SelectSeq(enriched_df, LAMBDA e : e.element = eid)[1]
      cold == SelectSeq(ids, LAMBDA eid :
                recent[eid] # <<>>
                  /\ Streak(recent[eid], LowPointsThreshold) >= LowPointsStreakLen)
      cold_items == [k \in DOMAIN cold |->
                       [text |-> "pts in consecutive GWs",
                        name |-> RowFor(cold[k]).web_name,
                        team_short |-> ShortOf(RowFor(cold[k])),
                        threshold |-> LowPointsThreshold,
                        streak |-> Streak(recent[cold[k]], LowPointsThreshold)]]
      fut == [k \in DOMAIN future_df |->
                [element |-> future_df[k].element,
                 avg_fdr |-> future_df[k].avg_fdr_nextN]]
      RunItems(sel, text) ==
        Flatten([k \in DOMAIN sel |->
                   LET rs == SelectSeq(enriched_df,
                                       LAMBDA e : e.element = sel[k].element)
                   IN IF IsNaN(sel[k].avg_fdr) THEN <<>>
                      ELSE [j \in DOMAIN rs |->
                              [text |-> text, name |-> rs[j].web_name,
                               team_short |-> ShortOf(rs[j]),
                               avg_fdr |-> Fmt(sel[k].avg_fdr, 2),
                               horizon |-> horizon]]])
      low_min(eid) == Cardinality({k \in DOMAIN recent[eid] :
                                     recent[eid][k].minutes < RotationMinutes})
      rot == SelectSeq(ids, LAMBDA eid :
               recent[eid] # <<>> /\ low_min(eid) >= RotationCount)
      rot_items == [k \in DOMAIN rot |->
                      [text |-> "rotation risk", name |-> RowFor(rot[k]).web_name,
                       low_min |-> low_min(rot[k])]]
      cand == [k \in DOMAIN enriched_df |->
                 LET hit == SelectSeq(fut, LAMBDA f : f.element = enriched_df[k].element)
                 IN [row |-> enriched_df[k],
                     sel |-> enriched_df[k].selected_by_percent,
                     avg_fdr |-> IF hit = <<>> THEN NaN ELSE hit[1].avg_fdr]]
      diff == SelectSeq(cand, LAMBDA c :
                RLe(c.sel, Whole(MaxOwnership))
                  /\ RLe(FillNa(c.avg_fdr, Whole(MissingFdr)), Whole(GoodFdr)))
      diff_items == [k \in DOMAIN diff |->
                       [text |-> "is a differential with good fixtures",
                        name |-> diff[k].row.web_name,
                        team_short |-> ShortOf(diff[k].row),
                        sel |-> Fmt(diff[k].sel, 1),
                        avg_fdr |-> Fmt(diff[k].avg_fdr, 2)]]
  IN << Insight("Bench hauls (>=4 pts)", bench_items),
        Insight("Cold streaks (<=2 pts, >=2 GWs in a row)", cold_items),
        Insight("Easiest upcoming runs",
                RunItems(nsmallest(NSelect, fut), "has easy run")),
        Insight("Toughest upcoming runs",
                RunItems(nlargest(NSelect, fut), "has tough run")),
        Insight("Rotation risk (mins <45 in 2/3)", rot_items),
        Insight("Differentials with good fixtures", diff_items) >>

\* An answer for a manager without picks that does not say which gameweek.
NoDataInsightsAnyGw(entry_id, gw) ==
  << Insight("No data", << [text |-> "No picks found for entry",
                            entry |-> entry_id, gw |-> 0] >>) >>

\* Line 34: the answer for a manager without picks.
NoDataInsights(entry_id, gw) ==
  << Insight("No data", << [text |-> "No picks found for entry",
                            entry |-> entry_id, gw |-> gw] >>) >>

\* get_insights, lines 25-51; each return value is the handler's outcome
\* before the endpoint's except clause.
get_insights(r, u) ==
  LET bs == u.bootstrap
      lg0 == IF IsNone(r.gw) THEN <<"bootstrap-static">> ELSE <<>>
      gw == IF IsNone(r.gw) THEN get_current_event(bs) ELSE r.gw
      lg1 == lg0 \o <<"picks">>
      picks == u.picks.picks
      lg2 == lg1 \o CurrentGwFetches(picks)
      lg3 == lg2 \o <<"bootstrap-static">>
      lg4 == lg2 \o FutureFetches(gw[1] + 1, r.horizon)
      n_summaries == Cardinality({picks[k].element : k \in DOMAIN picks})
  IN IF IsNone(r.gw) /\ ~bs.ok THEN Raised("HTTPError", lg0)
     ELSE IF IsNone(gw)
       THEN Raised("HTTPError", lg0 \o <<"bootstrap-static", "picks">>)
     ELSE IF ~u.picks.ok THEN Raised("HTTPError", lg1)
     ELSE IF picks = <<>> THEN Returned(NoDataInsights(r.entry_id, gw[1]), lg1)
     ELSE IF LookupFails(bs) THEN Raised("RuntimeError", lg1 \o <<"bootstrap-static">>)
     ELSE IF FutureStatsFails(picks, u) THEN Raised("ValueError", lg3)
     ELSE Returned(
            generate_insights(build_current_gw_stats(picks, gw, u),
                              build_future_stats(picks, gw[1] + 1, r.horizon, u),
                              gw, u, r.horizon),
            lg4 \o Times(n_summaries, "element-summary"))

(***************************************************************************)
(* The state machine: a request arrives, its handler runs, the answer is   *)
(* sent.                                                                   *)
(***************************************************************************)
Init ==
  /\ pc = "idle"
  /\ op = "none"
  /\ req = Nothing
  /\ up = Nothing
  /\ resp = Nothing
  /\ log = <<>>
  /\ lp = Nothing
  /\ frame = Nothing

Finish ==
  /\ pc = "done"
  /\ pc' = "idle"
  /\ op' = "none"
  /\ req' = Nothing
  /\ up' = Nothing
  /\ resp' = Nothing
  /\ log' = <<>>
  /\ lp' = Nothing
  /\ frame' = Nothing

\* GET /strategy/{entry_id}/optimize-transfer; a transfer_allowance in the query
\* string has no parameter to bind to.
CallOptimizeTransfer ==
  \E gw \in {NoneVal, Some(9)}, ta \in 0..MaxAllowance,
     pk \in PicksAnswers, bs \in BootstrapAnswers :
    /\ pc = "idle"
    /\ pc' = "called"
    /\ op' = "optimize_transfer"
    /\ req' = [entry_id |-> 7, gameweek |-> gw, transfer_allowance |-> ta]
    /\ up' = [picks |-> pk, bootstrap |-> bs]
    /\ UNCHANGED <<resp, log, lp, frame>>

ServeOptimizeTransfer ==
  /\ pc = "called"
  /\ op = "optimize_transfer"
  /\ \E o \in optimize_transfer(req, up) :
       /\ resp' = Respond(o)
       /\ log' = o.log
       /\ lp' = o.lp
       /\ frame' = o.frame
  /\ pc' = "done"
  /\ UNCHANGED <<op, req, up>>

NextOptimizer == CallOptimizeTransfer \/ ServeOptimizeTransfer \/ Finish

SpecOptimizer == Init /\ [][NextOptimizer]_vars

(***************************************************************************)
(* The optimizer's contract, stated from the specification.                *)
(***************************************************************************)
OptimizeDone == pc = "done" /\ op = "optimize_transfer"

OptimizeSucceeded ==
  /\ OptimizeDone
  /\ resp.status = 200
  /\ resp.body.optimization_status = "success"

OwnedIds == {up.picks.picks[k].element : k \in DOMAIN up.picks.picks}

Budget == up.picks.entry_history.value + up.picks.entry_history.bank

Cost(df, S) == SumF([i \in Index(df) |-> df[i].now_cost], S)

\* A legal squad: fifteen players, quotas 2/5/5/3, at most three of a club,
\* within the budget.
LegalSquad(df, S, budget) ==
  /\ Cardinality(S) = 15
  /\ Cardinality({i \in S : df[i].element_type = 1}) = 2
  /\ Cardinality({i \in S : df[i].element_type = 2}) = 5
  /\ Cardinality({i \in S : df[i].element_type = 3}) = 5
  /\ Cardinality({i \in S : df[i].element_type = 4}) = 3
  /\ \A c \in {df[i].team : i \in Index(df)} :
       Cardinality({i \in S : df[i].team = c}) <= 3
  /\ Cost(df, S) <= budget

Incoming(df, S, owned) == {i \in S : df[i].id \notin owned}

\* The legal squads with at most n players the manager does not own.
ReachableSquads(df, owned, budget, n) ==
  {S \in SubsetsOfSize(Index(df), 15) :
     LegalSquad(df, S, budget) /\ Cardinality(Incoming(df, S, owned)) <= n}

\* C1: whenever the optimizer reports "success", the new squad is legal (15
\* players, quotas 2/5/5/3, at most 3 of a club, price within value + bank) and
\* the number of reported incoming players is at most the transfer allowance.
C1_SuccessIsLegal ==
  OptimizeSucceeded =>
    /\ LegalSquad(up.bootstrap.elements, lp.squad, Budget)
    /\ Len(resp.body.transfer_in) <= req.transfer_allowance

\* C2: a call with transfer allowance 0 reports no incoming and no outgoing
\* player (stated for the calls that report success; C3 is about the others).
C2_ZeroAllowanceNoTransfers ==
  (OptimizeSucceeded /\ req.transfer_allowance = 0) =>
    /\ resp.body.transfer_in = <<>>
    /\ resp.body.transfer_out = <<>>

\* The optimizer got its data (picks and catalogue), so the program is solved.
OptimizeSolved == OptimizeDone /\ lp # Nothing

\* C3: when no legal squad is reachable, the call returns normally with status
\* "failed" and empty transfer lists.
C3_InfeasibleIsEmptyFailure ==
  (/\ OptimizeSolved
   /\ ReachableSquads(up.bootstrap.elements, OwnedIds, Budget, TransferLimit) = {})
  => /\ resp.status = 200
     /\ resp.body.optimization_status = "failed"
     /\ resp.body.transfer_in = <<>>
     /\ resp.body.transfer_out = <<>>

\* C4: on "success" the new squad's expected points are the maximum over the
\* legal squads that hold at most transfer_allowance players not owned.
C4_SuccessIsOptimal ==
  OptimizeSucceeded =>
    LET df == up.bootstrap.elements
        reach == ReachableSquads(df, OwnedIds, Budget, req.transfer_allowance)
    IN /\ lp.squad \in reach
       /\ \A S \in reach : Objective(df, S) <= Objective(df, lp.squad)

\* What the code does guarantee: C1 and C4 with the allowance read as the
\* constant of line 253.
SuccessIsLegalAtLimit ==
  OptimizeSucceeded =>
    /\ LegalSquad(up.bootstrap.elements, lp.squad, Budget)
    /\ Len(resp.body.transfer_in) <= TransferLimit

SuccessIsOptimalAtLimit ==
  OptimizeSucceeded =>
    LET df == up.bootstrap.elements
        reach == ReachableSquads(df, OwnedIds, Budget, TransferLimit)
    IN /\ lp.squad \in reach
       /\ \A S \in reach : Objective(df, S) <= Objective(df, lp.squad)

(***************************************************************************)
(* The metrics endpoints, the insights endpoint and the projection.        *)
(***************************************************************************)
Upstreams ==
  { [picks |-> pk, bootstrap |-> bs, summaries |-> sm, fixtures |-> fx] :
      pk \in LeaguePicksAnswers, bs \in LeagueAnswers,
      sm \in SummaryTables, fx \in FixtureTables }

\* The upstreams with every player's summary fetched and the first week listed.
PlainUpstreams ==
  { u \in Upstreams :
      /\ \A i \in DOMAIN u.summaries : u.summaries[i].ok /\ u.summaries[i].history # <<>>
      /\ u.fixtures[CurrentGw + 1].ok /\ u.fixtures[CurrentGw + 1].rows # <<>> }

\* entry_metrics.py: the result, or HTTP 500 "Error computing <name>: <e>".
RespondMetric(name, o) ==
  IF o.raised
    THEN [status |-> 500, detail |-> [prefix |-> "Error computing", name |-> name,
                                      exc |-> o.exc]]
  ELSE [status |-> 200, body |-> o.value]

CallExpectedPoints ==
  \E h \in 0..MaxHorizon, u \in PlainUpstreams :
    /\ pc = "idle"
    /\ pc' = "called"
    /\ op' = "expected_points"
    /\ req' = [entry_id |-> 7, horizon |-> h]
    /\ up' = u
    /\ UNCHANGED <<resp, log, lp, frame>>

ServeExpectedPoints ==
  /\ pc = "called"
  /\ op = "expected_points"
  /\ LET o == compute_expected_points_for_entry(req, up)
     IN /\ resp' = RespondMetric("expected_points", o)
        /\ log' = o.log
        /\ frame' = o.frame
  /\ pc' = "done"
  /\ UNCHANGED <<op, req, up, lp>>

CallValueEfficiency ==
  \E u \in PlainUpstreams :
    /\ pc = "idle"
    /\ pc' = "called"
    /\ op' = "value_efficiency"
    /\ req' = [entry_id |-> 7]
    /\ up' = u
    /\ UNCHANGED <<resp, log, lp, frame>>

ServeValueEfficiency ==
  /\ pc = "called"
  /\ op = "value_efficiency"
  /\ LET o == compute_value_efficiency(req, up)
     IN /\ resp' = RespondMetric("value_efficiency", o)
        /\ log' = o.log
        /\ frame' = o.frame
  /\ pc' = "done"
  /\ UNCHANGED <<op, req, up, lp>>

CallFixtureRun ==
  \E h \in 0..MaxHorizon, u \in PlainUpstreams :
    /\ pc = "idle"
    /\ pc' = "called"
    /\ op' = "fixture_run"
    /\ req' = [entry_id |-> 7, horizon |-> h]
    /\ up' = u
    /\ UNCHANGED <<resp, log, lp, frame>>

ServeFixtureRun ==
  /\ pc = "called"
  /\ op = "fixture_run"
  /\ LET o == compute_fixture_run(req, up)
     IN /\ resp' = RespondMetric("fixture_run", o)
        /\ log' = o.log
        /\ frame' = o.frame
  /\ pc' = "done"
  /\ UNCHANGED <<op, req, up, lp>>

NextMetrics ==
  \/ CallExpectedPoints
  \/ ServeExpectedPoints
  \/ CallValueEfficiency
  \/ ServeValueEfficiency
  \/ CallFixtureRun
  \/ ServeFixtureRun
  \/ Finish

SpecMetrics == Init /\ [][NextMetrics]_vars

\* GET /entry/{entry_id}/insights
CallInsights ==
  \E gw \in {NoneVal, Some(CurrentGw)}, h \in 0..MaxHorizon, u \in Upstreams :
    /\ pc = "idle"
    /\ pc' = "called"
    /\ op' = "get_insights"
    /\ req' = [entry_id |-> 7, gw |-> gw, horizon |-> h]
    /\ up' = u
    /\ UNCHANGED <<resp, log, lp, frame>>

ServeInsights ==
  /\ pc = "called"
  /\ op = "get_insights"
  /\ LET o == get_insights(req, up)
     IN /\ resp' = Respond(o)
        /\ log' = o.log
        /\ frame' = o.frame
  /\ pc' = "done"
  /\ UNCHANGED <<op, req, up, lp>>

NextInsights ==
  \/ CallInsights
  \/ ServeInsights
  \/ Finish

SpecInsights == Init /\ [][NextInsights]_vars

\* The projection applied to a picks answer in hand: lines 38-80 of
\* compute_expected_points_for_entry.
ProjectionInputs ==
  \E h \in 0..MaxHorizon, u \in Upstreams :
    /\ u.picks.ok
    /\ pc = "idle"
    /\ pc' = "called"
    /\ op' = "ExpectedPointsFrom"
    /\ req' = [entry_id |-> 7, horizon |-> h]
    /\ up' = u
    /\ UNCHANGED <<resp, log, lp, frame>>

ApplyExpectedPointsFrom ==
  /\ pc = "called"
  /\ op = "ExpectedPointsFrom"
  /\ LET o == ExpectedPointsFrom(up.picks, req, up)
     IN /\ resp' = RespondMetric("expected_points", o)
        /\ log' = o.log
        /\ frame' = o.frame
  /\ pc' = "done"
  /\ UNCHANGED <<op, req, up, lp>>

NextProjection ==
  \/ ProjectionInputs
  \/ ApplyExpectedPointsFrom
  \/ Finish

SpecProjection == Init /\ [][NextProjection]_vars

(***************************************************************************)
(* The insights endpoint without picks.                                    *)
(***************************************************************************)
InsightsDone == pc = "done" /\ op = "get_insights"

\* The gameweek the request is about: the one asked for, else the current one.
InsightsGw ==
  IF ~IsNone(req.gw) THEN req.gw
  ELSE IF up.bootstrap.ok THEN get_current_event(up.bootstrap) ELSE NoneVal

NoPicksForGw == ~IsNone(InsightsGw) /\ up.picks.ok /\ up.picks.picks = <<>>

\* C5: a manager whose picks list for the requested gameweek is empty gets
\* status 200 with exactly one insight, titled "No data", whose single item
\* mentions the entry id and the gameweek; the only fetches made are the one
\* for the picks and, when no gameweek was asked for, the one that finds the
\* current gameweek: no enrichment, fixture or history fetch.
C5_NoPicksNoData ==
  (InsightsDone /\ NoPicksForGw) =>
    /\ resp.status = 200
    /\ Len(resp.body) = 1
    /\ resp.body[1].title = "No data"
    /\ Len(resp.body[1].items) = 1
    /\ resp.body[1].items[1].entry = req.entry_id
    /\ resp.body[1].items[1].gw = InsightsGw[1]
    /\ log = (IF IsNone(req.gw) THEN <<"bootstrap-static">> ELSE <<>>) \o <<"picks">>
    /\ "element-summary" \notin SeqToSet(log)
    /\ "fixtures" \notin SeqToSet(log)

C5_Witness ==
  /\ InsightsDone
  /\ NoPicksForGw
  /\ IsNone(req.gw)
  /\ req.horizon > 0
  /\ resp.status = 200

(***************************************************************************)
(* The metrics endpoints without picks.                                    *)
(***************************************************************************)
MetricsDone ==
  pc = "done" /\ op \in {"expected_points", "value_efficiency", "fixture_run"}

\* C6: when the manager has no picks, the expected-points, value-efficiency
\* and fixture-run operations answer with a well-formed result (an empty
\* players list, a warning, and team total 0.0 / team average 0.0 / no team
\* difficulty) and not with an error.
C6_NoPicksIsWellFormed ==
  (MetricsDone /\ up.picks.ok /\ up.picks.picks = <<>>) =>
    /\ resp.status = 200
    /\ resp.body.players = <<>>
    /\ "warning" \in DOMAIN resp.body
    /\ op = "expected_points" => resp.body.team_expected_points = Zero
    /\ op = "value_efficiency" => resp.body.team_average_value_efficiency = Zero
    /\ op = "fixture_run" => IsNone(resp.body.team_avg_fdr)

\* Every call of the three operations fails on its first line.
MetricsAlwaysFail == MetricsDone => resp.status = 500 /\ log = <<>>

(***************************************************************************)
(* The projection of expected points.                                      *)
(***************************************************************************)
ProjectionDone == pc = "done" /\ op = "ExpectedPointsFrom"

Projected == ProjectionDone /\ resp.status = 200 /\ frame # Nothing

\* The fixtures the provider returned for the horizon.
HorizonFixtures == get_fixtures_for_events(up, Events(CurrentGw + 1, req.horizon))

\* The body of the method, given an empty picks list, answers as C6 says.
NoPicksProjectionIsWellFormed ==
  (ProjectionDone /\ up.picks.picks = <<>>) =>
    /\ resp.status = 200
    /\ resp.body.players = <<>>
    /\ "warning" \in DOMAIN resp.body
    /\ resp.body.team_expected_points = Zero
    /\ log = <<>>

\* C7: in every expected-points computation each player's fixture-difficulty
\* multiplier is finite and strictly greater than 0, and it is exactly 1.0 for
\* a player whose average fixture difficulty is unknown; also when the
\* provider returns no fixtures for the horizon or the horizon is 0.
C7_FdrMultiplierPositive ==
  Projected =>
    \A k \in DOMAIN frame :
      /\ IsFinite(frame[k].fdr_multiplier)
      /\ RGt(frame[k].fdr_multiplier, Zero)
      /\ IsNaN(frame[k].avg_fdr_nextN) => frame[k].fdr_multiplier = One

\* The same, for the computations whose horizon has at least one fixture.
FdrMultiplierPositiveWithFixtures ==
  (Projected /\ HorizonFixtures # <<>>) =>
    \A k \in DOMAIN frame :
      /\ IsFinite(frame[k].fdr_multiplier)
      /\ RGt(frame[k].fdr_multiplier, Zero)
      /\ IsNaN(frame[k].avg_fdr_nextN) => frame[k].fdr_multiplier = One

\* The record of gameweek gw in a player's fetched history, if any.
GwRecord(eid, gw) ==
  SelectSeq(HistoryOf(up, eid), LAMBDA h : h.round = gw)

\* C8: the venue multiplier of every projected player is exactly 1.10 when
\* the player's fixture of the gameweek was at home and exactly 0.90 when it
\* was away, and it is one of these two values for every player, 0.90 for a
\* player without a record of the gameweek (a zero-stat placeholder row).
C8_VenueMultiplier ==
  Projected =>
    \A k \in DOMAIN frame :
      LET rec == GwRecord(frame[k].element, CurrentGw)
          m == frame[k].home_multiplier
      IN /\ m \in {Rat(11, 10), Rat(9, 10)}
         /\ frame[k].home_away = "H" => m = Rat(11, 10)
         /\ frame[k].home_away = "A" => m = Rat(9, 10)
         /\ (rec # <<>> /\ \A j \in DOMAIN rec : rec[j].was_home) => m = Rat(11, 10)
         /\ (rec # <<>> /\ \A j \in DOMAIN rec : ~rec[j].was_home) => m = Rat(9, 10)
         /\ rec = <<>> => m = Rat(9, 10)

C8_Witness ==
  /\ Projected
  /\ \E k \in DOMAIN frame : frame[k].home_away = "H"
  /\ \E k \in DOMAIN frame : frame[k].home_away = "A"
  /\ \E k \in DOMAIN frame :
       frame[k].home_away = "NaN" /\ GwRecord(frame[k].element, CurrentGw) = <<>>

\* Float addition of a column, a null making the sum null.
RECURSIVE SumAll(_)
SumAll(xs) == IF xs = <<>> THEN Zero ELSE RAdd(Head(xs), SumAll(Tail(xs)))

FormRule(f) ==
  IF RGe(f, Whole(3)) THEN Rat(105, 100)
  ELSE IF RLt(f, One) THEN Rat(95, 100) ELSE One

AdjustedIsProduct ==
  /\ \A k \in DOMAIN frame :
       /\ frame[k].form_multiplier = FormRule(frame[k].form)
       /\ frame[k].expected_adj =
            RMul(frame[k].expected_basic,
                 RMul(frame[k].home_multiplier,
                      RMul(frame[k].form_multiplier, frame[k].fdr_multiplier)))
       /\ resp.body.players[k].expected_adj = frame[k].expected_adj
       /\ resp.body.players[k].expected_basic = frame[k].expected_basic
  /\ Len(resp.body.players) = Len(frame)
  /\ resp.body.team_expected_points =
       SumAll([k \in DOMAIN frame |-> resp.body.players[k].expected_adj])

\* C9: for every projected player, adjusted expected points = base expected
\* points x venue multiplier x form multiplier x fixture-difficulty
\* multiplier, the form multiplier being 1.05 for form >= 3.0, 0.95 for
\* form < 1.0 and 1.0 otherwise, and the team total is the sum of the
\* players' adjusted values.
C9_AdjustedIsProduct == Projected => AdjustedIsProduct

\* The same, for the computations whose horizon has at least one fixture.
AdjustedIsProductWithFixtures ==
  (Projected /\ HorizonFixtures # <<>>) => AdjustedIsProduct

\* Both boundaries of the form rule are met in one projection.
FormBoundariesMet ==
  /\ Projected
  /\ HorizonFixtures # <<>>
  /\ \E k \in DOMAIN frame :
       frame[k].form = Whole(3) /\ frame[k].form_multiplier = Rat(21, 20)
  /\ \E k \in DOMAIN frame :
       frame[k].form = One /\ frame[k].form_multiplier = One

(***************************************************************************)
(* The fixture run: lines 134-156 of compute_fixture_run applied to a      *)
(* picks answer in hand.                                                   *)
(***************************************************************************)
\* Fixture lists whose difficulties put the clubs' means on and around the
\* boundaries 2.5 and 4.0.
RunFirstWeek ==
  {FetchFailed} \cup {[ok |-> TRUE, rows |-> <<Fx(10, 1, 1, 2, a, 4)>>] : a \in {2, 4}}

RunLaterWeek ==
  {FetchFailed} \cup {[ok |-> TRUE, rows |-> <<Fx(11, 12, 2, 1, 4, d)>>] : d \in {3, 4, 5}}

RunFixtureTables ==
  { [ev \in (CurrentGw + 1)..(CurrentGw + MaxHorizon + 1) |->
       IF ev = CurrentGw + 1 THEN f1
       ELSE IF ev = CurrentGw + 2 THEN f2 ELSE [ok |-> TRUE, rows |-> <<>>]] :
      f1 \in RunFirstWeek, f2 \in RunLaterWeek }

RunUpstreams ==
  { [picks |-> pk, bootstrap |-> bs, summaries |-> sm, fixtures |-> fx] :
      pk \in LeaguePicksAnswers \ {FetchFailed}, bs \in LeagueAnswers,
      sm \in {CHOOSE t \in SummaryTables : TRUE}, fx \in RunFixtureTables }

FixtureRunInputs ==
  \E h \in 0..MaxHorizon, u \in RunUpstreams :
    /\ pc = "idle"
    /\ pc' = "called"
    /\ op' = "FixtureRunFrom"
    /\ req' = [entry_id |-> 7, horizon |-> h]
    /\ up' = u
    /\ UNCHANGED <<resp, log, lp, frame>>

ApplyFixtureRunFrom ==
  /\ pc = "called"
  /\ op = "FixtureRunFrom"
  /\ LET o == FixtureRunFrom(up.picks, req, up)
     IN /\ resp' = RespondMetric("fixture_run", o)
        /\ log' = o.log
        /\ frame' = o.frame
  /\ pc' = "done"
  /\ UNCHANGED <<op, req, up, lp>>

NextFixtureRun ==
  \/ FixtureRunInputs
  \/ ApplyFixtureRunFrom
  \/ Finish

SpecFixtureRun == Init /\ [][NextFixtureRun]_vars

FixtureRunDone ==
  pc = "done" /\ op = "FixtureRunFrom" /\ resp.status = 200 /\ up.picks.picks # <<>>

\* The labelling rule as the specification words it.
LabelRule(x) ==
  IF RLe(x, Rat(25, 10)) THEN "favourable"
  ELSE IF RGe(x, Rat(40, 10)) THEN "tough" ELSE "neutral"

CountLabel(players, label) ==
  Cardinality({k \in DOMAIN players : players[k].fixture_status = label})

ScenarioLabelsMet ==
  /\ FixtureRunDone
  /\ \E k \in DOMAIN resp.body.players :
       /\ resp.body.players[k].avg_fdr_nextN = Whole(3)
       /\ resp.body.players[k].fixture_status = "neutral"
  /\ \E k \in DOMAIN resp.body.players :
       /\ resp.body.players[k].avg_fdr_nextN = Whole(4)
       /\ resp.body.players[k].fixture_status = "tough"

ScenarioExtremesMet ==
  /\ FixtureRunDone
  /\ \E k \in DOMAIN resp.body.players :
       /\ resp.body.players[k].avg_fdr_nextN = Rat(9, 2)
       /\ resp.body.players[k].fixture_status = "tough"

(***************************************************************************)
(* Value efficiency: lines 84-109 of compute_value_efficiency applied to a *)
(* picks answer in hand, and lines 90-109 applied to a table that has a    *)
(* price column.                                                           *)
(***************************************************************************)
ValueEfficiencyInputs ==
  \E u \in Upstreams :
    /\ u.picks.ok
    /\ pc = "idle"
    /\ pc' = "called"
    /\ op' = "ValueEfficiencyFrom"
    /\ req' = [entry_id |-> 7]
    /\ up' = u
    /\ UNCHANGED <<resp, log, lp, frame>>

ApplyValueEfficiencyFrom ==
  /\ pc = "called"
  /\ op = "ValueEfficiencyFrom"
  /\ LET o == ValueEfficiencyFrom(up.picks, req, up)
     IN /\ resp' = RespondMetric("value_efficiency", o)
        /\ log' = o.log
        /\ frame' = o.frame
  /\ pc' = "done"
  /\ UNCHANGED <<op, req, up, lp>>

NextValueEfficiency ==
  \/ ValueEfficiencyInputs
  \/ ApplyValueEfficiencyFrom
  \/ Finish

SpecValueEfficiency == Init /\ [][NextValueEfficiency]_vars

\* Rows of a priced table: expected points and price in millions.
PricedKinds ==
  { [ep_next |-> Whole(2), now_price |-> Whole(5)],
    [ep_next |-> Whole(3), now_price |-> Whole(5)],
    [ep_next |-> Whole(5), now_price |-> Whole(5)],
    [ep_next |-> Whole(2), now_price |-> Zero],
    [ep_next |-> Whole(2), now_price |-> NaN],
    [ep_next |-> One, now_price |-> Whole(10)] }

PricedTables ==
  UNION { { [k \in 1..n |-> [element |-> k, web_name |-> k,
                             ep_next |-> f[k].ep_next, now_price |-> f[k].now_price]] :
              f \in [1..n -> PricedKinds] } : n \in 1..MaxPicks }

PricedTableInputs ==
  \E t \in PricedTables :
    /\ pc = "idle"
    /\ pc' = "called"
    /\ op' = "ValueEfficiencyResult"
    /\ req' = [entry_id |-> 7]
    /\ up' = [table |-> t]
    /\ UNCHANGED <<resp, log, lp, frame>>

ApplyValueEfficiencyResult ==
  /\ pc = "called"
  /\ op = "ValueEfficiencyResult"
  /\ resp' = [status |-> 200, body |-> ValueEfficiencyResult(req, up.table)]
  /\ pc' = "done"
  /\ UNCHANGED <<op, req, up, log, lp, frame>>

NextValueRule ==
  \/ PricedTableInputs
  \/ ApplyValueEfficiencyResult
  \/ Finish

SpecValueRule == Init /\ [][NextValueRule]_vars

\* A value-efficiency call whose picks and catalogue were fetched.
ValueEfficiencyServed ==
  /\ pc = "done"
  /\ op = "ValueEfficiencyFrom"
  /\ up.picks.picks # <<>>
  /\ ~LookupFails(up.bootstrap)

\* The price in millions and the expected points the catalogue holds for a
\* player; the price is missing for a player the catalogue does not hold.
PriceOf(eid) == MetaOf(up.bootstrap, eid).now_price
ExpectedOf(eid) == FillNa(MetaOf(up.bootstrap, eid).ep_next, Zero)

EfficiencyRule(expected, price) ==
  IF ~IsNaN(price) /\ RGt(price, Zero) THEN RDiv(expected, price) ELSE Zero

\* C12: a player's value efficiency is expected points divided by price when
\* the price is > 0 and exactly 0.0 when the price is 0 or missing; a squad of
\* one player priced 0 gets efficiency 0.0, team average 0.0 and no failure.
C12_ValueEfficiency ==
  ValueEfficiencyServed =>
    /\ resp.status = 200
    /\ Len(resp.body.players) = Len(up.picks.picks)
    /\ \A k \in DOMAIN resp.body.players :
         resp.body.players[k].value_eff =
           EfficiencyRule(ExpectedOf(resp.body.players[k].element),
                          PriceOf(resp.body.players[k].element))
    /\ (Len(up.picks.picks) = 1 /\ PriceOf(up.picks.picks[1].element) = Zero) =>
         /\ resp.body.players[1].value_eff = Zero
         /\ resp.body.team_average_value_efficiency = Zero

\* Every served call ends at line 91.
ValueEfficiencyAlwaysFails ==
  ValueEfficiencyServed => resp.status = 500 /\ resp.detail.exc = "KeyError"

PricedDone == pc = "done" /\ op = "ValueEfficiencyResult"

\* Lines 90-95 on a priced table give what C12 says.
PricedEfficiencyRule ==
  PricedDone =>
    /\ Len(resp.body.players) = Len(up.table)
    /\ \A k \in DOMAIN resp.body.players :
         LET row == up.table[resp.body.players[k].element]
         IN resp.body.players[k].value_eff = EfficiencyRule(row.ep_next, row.now_price)
    /\ (Len(up.table) = 1 /\ up.table[1].now_price = Zero) =>
         /\ resp.body.players[1].value_eff = Zero
         /\ resp.body.team_average_value_efficiency = Zero

SingleFreePlayerMet ==
  PricedDone /\ Len(up.table) = 1 /\ up.table[1].now_price = Zero

\* The players a recommendation names, and how often.
TimesRecommended(name) ==
  Cardinality({k \in DOMAIN resp.body.recommendations :
                 resp.body.recommendations[k].name = name})

RECURSIVE PlainSum(_)
PlainSum(xs) == IF xs = <<>> THEN Zero ELSE RAdd(Head(xs), PlainSum(Tail(xs)))

RecommendationRule ==
  LET players == resp.body.players
      mean == RDiv(PlainSum([k \in DOMAIN players |-> players[k].value_eff]),
                   Whole(Len(players)))
  IN /\ resp.body.team_average_value_efficiency = mean
     /\ \A k \in DOMAIN players :
          TimesRecommended(players[k].player_name) =
            IF RLt(players[k].value_eff, RMul(Rat(80, 100), mean)) THEN 1 ELSE 0
     /\ Len(resp.body.recommendations) =
          Cardinality({k \in DOMAIN players :
                         RLt(players[k].value_eff, RMul(Rat(80, 100), mean))})

\* C13: compute_value_efficiency recommends transferring out a squad player
\* if and only if the player's value efficiency is strictly below 80% of the
\* mean efficiency of the squad; a player exactly at 80% is not recommended
\* and each qualifying player is recommended exactly once.
C13_Recommendations ==
  ValueEfficiencyServed => (resp.status = 200 /\ RecommendationRule)

\* Lines 95-109 on a priced table give what C13 says.
PricedRecommendationRule == PricedDone => RecommendationRule

\* A player exactly at 80% of the mean, not recommended, beside one below it.
BoundaryNotRecommendedMet ==
  /\ PricedDone
  /\ \E k \in DOMAIN resp.body.players :
       /\ resp.body.players[k].value_eff =
            RMul(Rat(8, 10), resp.body.team_average_value_efficiency)
       /\ RGt(resp.body.players[k].value_eff, Zero)
       /\ TimesRecommended(resp.body.players[k].player_name) = 0
  /\ resp.body.recommendations # <<>>

(***************************************************************************)
(* Performance analysis: compute_performance_analysis and its endpoint.    *)
(***************************************************************************)
MaxHistory == 2

\* A history record of a manager: a gameweek and two cells that the record
\* may or may not hold.
PointsCells == {NoneVal, Some(Num(Whole(5))), Some(Num(Rat(3, 2))), Some(Num(Zero))}
ExpectationCells == {NoneVal, Some(Num(Whole(3))), Some(Num(Rat(7, 2))), Some(BadText)}

HistoryLists ==
  UNION { { [k \in 1..n |-> [event |-> k, points_per_game |-> f[k][1],
                             ep_this |-> f[k][2]]] :
              f \in [1..n -> PointsCells \X ExpectationCells] } : n \in 0..MaxHistory }

HistoryAnswers == {FetchFailed} \cup { [ok |-> TRUE, current |-> h] : h \in HistoryLists }

\* pd.DataFrame(history) has a column when some record has the key.
HasColumn(history, col) == \E k \in DOMAIN history : ~IsNone(history[k][col])

\* _safe_float on a cell of the table: a number, 0.0 for text that is not a
\* number, and NaN for the cell of a record without the key.
SafeFloatCell(cell) ==
  IF IsNone(cell) THEN NaN ELSE IF cell[1].num THEN cell[1].val ELSE Zero

PerformanceStatus(delta) ==
  IF RLt(delta, Rat(-3, 2)) THEN "Under-performing"
  ELSE IF RGt(delta, Rat(3, 2)) THEN "Over-performing"
  ELSE "Normal"

PerformanceResult(r, history) ==
  LET rows == [k \in DOMAIN history |->
                 LET ppg == SafeFloatCell(history[k].points_per_game)
                     ep == SafeFloatCell(history[k].ep_this)
                 IN [gameweek |-> history[k].event, points_per_game |-> ppg,
                     ep_this |-> ep, delta |-> RSub(ppg, ep),
                     status |-> PerformanceStatus(RSub(ppg, ep))]]
      count(st) == Cardinality({k \in DOMAIN rows : rows[k].status = st})
  IN [entry_id |-> r.entry_id,
      players |-> rows,
      summary |-> [under_performers_count |-> count("Under-performing"),
                   over_performers_count |-> count("Over-performing")]]

PerformanceFrom(history_resp, r) ==
  LET history == history_resp.current IN
  IF history = <<>>
    THEN Returned([entry_id |-> r.entry_id, players |-> <<>>,
                   summary |-> [under_performers_count |-> 0,
                                over_performers_count |-> 0],
                   warning |-> "No history data."], <<"history">>)
  ELSE IF ~HasColumn(history, "points_per_game") THEN Raised("KeyError", <<"history">>)
  ELSE IF ~HasColumn(history, "ep_this") THEN Raised("AttributeError", <<"history">>)
  ELSE Returned(PerformanceResult(r, history), <<"history">>)

compute_performance_analysis(r, u) ==
  IF "fetch_entry_history" \notin ServiceAttributes THEN Raised("AttributeError", <<>>)
  ELSE IF ~u.history.ok THEN Raised("HTTPError", <<"history">>)
  ELSE PerformanceFrom(u.history, r)

CallPerformanceAnalysis ==
  \E h \in HistoryAnswers :
    /\ pc = "idle"
    /\ pc' = "called"
    /\ op' = "performance_analysis"
    /\ req' = [entry_id |-> 7]
    /\ up' = [history |-> h]
    /\ UNCHANGED <<resp, log, lp, frame>>

ServePerformanceAnalysis ==
  /\ pc = "called"
  /\ op = "performance_analysis"
  /\ LET o == compute_performance_analysis(req, up)
     IN /\ resp' = RespondMetric("performance_analysis", o)
        /\ log' = o.log
        /\ frame' = o.frame
  /\ pc' = "done"
  /\ UNCHANGED <<op, req, up, lp>>

\* Lines 113-130 applied to a history answer in hand.
PerformanceInputs ==
  \E h \in HistoryAnswers :
    /\ h.ok
    /\ pc = "idle"
    /\ pc' = "called"
    /\ op' = "PerformanceFrom"
    /\ req' = [entry_id |-> 7]
    /\ up' = [history |-> h]
    /\ UNCHANGED <<resp, log, lp, frame>>

ApplyPerformanceFrom ==
  /\ pc = "called"
  /\ op = "PerformanceFrom"
  /\ LET o == PerformanceFrom(up.history, req)
     IN /\ resp' = RespondMetric("performance_analysis", o)
        /\ log' = o.log
        /\ frame' = o.frame
  /\ pc' = "done"
  /\ UNCHANGED <<op, req, up, lp>>

NextPerformance ==
  \/ CallPerformanceAnalysis
  \/ ServePerformanceAnalysis
  \/ PerformanceInputs
  \/ ApplyPerformanceFrom
  \/ Finish

SpecPerformance == Init /\ [][NextPerformance]_vars

\* The status the rule gives to a record of the answer.
StatusRule(row) ==
  IF IsFinite(row.delta) /\ RLt(row.delta, Rat(-15, 10)) THEN "Under-performing"
  ELSE IF IsFinite(row.delta) /\ RGt(row.delta, Rat(15, 10)) THEN "Over-performing"
  ELSE "Normal"

PerformanceRule ==
  /\ Len(resp.body.players) = Len(up.history.current)
  /\ \A k \in DOMAIN resp.body.players :
       LET row == resp.body.players[k] IN
       /\ row.gameweek = up.history.current[k].event
       /\ row.delta = RSub(row.points_per_game, row.ep_this)
       /\ row.status = StatusRule(row)
  /\ resp.body.summary.under_performers_count =
       Cardinality({k \in DOMAIN resp.body.players :
                      resp.body.players[k].status = "Under-performing"})
  /\ resp.body.summary.over_performers_count =
       Cardinality({k \in DOMAIN resp.body.players :
                      resp.body.players[k].status = "Over-performing"})

\* C14: compute_performance_analysis gives every gameweek record of the
\* manager's history exactly one status from delta = points-per-game minus
\* expectation (Under-performing iff delta < -1.5, Over-performing iff
\* delta > 1.5, Normal otherwise, the two boundary values included), and the
\* summary counts the records of each status.
C14_PerformanceStatus ==
  (pc = "done" /\ op = "performance_analysis" /\ up.history.ok
     /\ up.history.current # <<>>) =>
    (resp.status = 200 /\ PerformanceRule)

\* Every call of the operation fails on its first line.
PerformanceAlwaysFails ==
  (pc = "done" /\ op = "performance_analysis") =>
    (resp.status = 500 /\ resp.detail.exc = "AttributeError" /\ log = <<>>)

PerformanceBodyDone == pc = "done" /\ op = "PerformanceFrom"

\* Lines 113-130 classify as C14 says when the table has both columns.
PerformanceRuleWithColumns ==
  (PerformanceBodyDone /\ HasColumn(up.history.current, "points_per_game")
     /\ HasColumn(up.history.current, "ep_this")) =>
    (resp.status = 200 /\ PerformanceRule)

\* Lines 113-130 fail when no record holds an expectation.
NoExpectationFails ==
  (PerformanceBodyDone /\ up.history.current # <<>>
     /\ HasColumn(up.history.current, "points_per_game")
     /\ ~HasColumn(up.history.current, "ep_this")) =>
    (resp.status = 500 /\ resp.detail.exc = "AttributeError")

\* Both boundary values classified Normal in one answer.
PerformanceBoundariesMet ==
  /\ PerformanceBodyDone
  /\ resp.status = 200
  /\ \E j, k \in DOMAIN resp.body.players :
       /\ resp.body.players[j].delta = Rat(3, 2)
       /\ resp.body.players[j].status = "Normal"
       /\ resp.body.players[k].delta = Rat(-3, 2)
       /\ resp.body.players[k].status = "Normal"

\* One record over and one record under the band.
PerformanceBucketsMet ==
  /\ PerformanceBodyDone
  /\ resp.status = 200
  /\ resp.body.summary.under_performers_count = 1
  /\ resp.body.summary.over_performers_count = 1

(***************************************************************************)
(* Cold streaks: the insights endpoint on players with longer histories.   *)
(***************************************************************************)
\* A history with the given scores, oldest first, ending at the current week.
Scored(points) ==
  [k \in DOMAIN points |->
     Hist(CurrentGw - Len(points) + k, 90, points[k], k % 2 = 0)]

StreakHistories ==
  { <<>>, Scored(<<5, 1, 0>>), Scored(<<5, 0, 1>>), Scored(<<0, 1, 5>>),
    Scored(<<1, 0, 1, 2>>), Scored(<<0, 3, 2>>), Scored(<<2>>),
    <<Hist(9, 90, 0, TRUE), Hist(7, 90, 5, TRUE), Hist(8, 90, 1, FALSE)>> }

StreakSummaryTables ==
  { [i \in 1..MaxPicks |-> IF i = 1 THEN s1 ELSE IF i = 2 THEN s2 ELSE RestSummary] :
      s1 \in {FetchFailed} \cup {[ok |-> TRUE, history |-> h] : h \in StreakHistories},
      s2 \in {SecondSummary, [ok |-> TRUE, history |-> Scored(<<0, 0>>)]} }

StreakUpstreams ==
  { [picks |-> pk, bootstrap |-> bs, summaries |-> sm, fixtures |-> fx] :
      pk \in LeaguePicksAnswers \ {FetchFailed},
      bs \in {[ok |-> TRUE, elements |-> League(RestProfile, SecondProfile),
               teams |-> TeamRows, element_types |-> TypeRows,
               events |-> SeasonEvents]},
      sm \in StreakSummaryTables,
      fx \in {[ev \in (CurrentGw + 1)..(CurrentGw + MaxHorizon + 1) |->
                 [ok |-> TRUE, rows |-> <<>>]]} }

CallInsightsOnHistories ==
  \E gw \in {NoneVal, Some(CurrentGw)}, h \in 0..MaxHorizon, u \in StreakUpstreams :
    /\ pc = "idle"
    /\ pc' = "called"
    /\ op' = "get_insights"
    /\ req' = [entry_id |-> 7, gw |-> gw, horizon |-> h]
    /\ up' = u
    /\ UNCHANGED <<resp, log, lp, frame>>

NextColdStreak ==
  \/ CallInsightsOnHistories
  \/ ServeInsights
  \/ Finish

SpecColdStreak == Init /\ [][NextColdStreak]_vars

\* An answer that carries the six insights.
StreakServed == InsightsDone /\ resp.status = 200 /\ Len(resp.body) = 6

ColdItems == resp.body[2].items

PickedIds == {up.picks.picks[k].element : k \in DOMAIN up.picks.picks}

\* A player's recorded scores, oldest gameweek first.
ChronScores(eid) ==
  LET h == HistoryOf(up, eid)
      Rank(k) == Cardinality({j \in DOMAIN h : h[j].round <= h[k].round})
  IN [i \in 1..Len(h) |-> h[CHOOSE k \in DOMAIN h : Rank(k) = i].total_points]

\* The number of scores at the end of s that are all <= the threshold.
TrailingRun(s) ==
  CHOOSE n \in 0..Len(s) :
    /\ \A i \in (Len(s) - n + 1)..Len(s) : s[i] <= LowPointsThreshold
    /\ n < Len(s) => s[Len(s) - n] > LowPointsThreshold

TimesFlagged(eid) == Cardinality({k \in DOMAIN ColdItems : ColdItems[k].name = eid})

FlaggedWith(eid, n) ==
  /\ TimesFlagged(eid) = 1
  /\ \A k \in DOMAIN ColdItems : ColdItems[k].name = eid => ColdItems[k].streak = n

\* C15 as stated: with threshold 2 and minimum length 2, a player whose
\* scores are [5, 1, 0], oldest gameweek first, is not flagged as being on a
\* cold streak.
C15_DipNotFlagged ==
  StreakServed =>
    \A eid \in PickedIds : ChronScores(eid) = <<5, 1, 0>> => TimesFlagged(eid) = 0

\* C15: with threshold 2 and minimum length 2, a player whose scores are
\* [5, 1, 0], oldest gameweek first, is flagged with a streak of 2 (the two
\* newest scores are low), and a player whose scores are [0, 1, 5], oldest
\* first, is not flagged (the newest score breaks the streak at once).
C15_DipFlagged ==
  StreakServed =>
    \A eid \in PickedIds :
      /\ ChronScores(eid) = <<5, 1, 0>> => FlaggedWith(eid, 2)
      /\ ChronScores(eid) = <<0, 1, 5>> => TimesFlagged(eid) = 0

C15_Witness ==
  /\ StreakServed
  /\ ChronScores(1) = <<5, 1, 0>>
  /\ up.summaries[1].history[1].round = CurrentGw - 2
  /\ FlaggedWith(1, 2)

\* The same scores flagged when the upstream lists them out of order.
UnorderedHistoryMet ==
  /\ StreakServed
  /\ ChronScores(1) = <<5, 1, 0>>
  /\ up.summaries[1].history[1].round = CurrentGw
  /\ FlaggedWith(1, 2)

RecoveredNotFlaggedMet ==
  StreakServed /\ ChronScores(1) = <<0, 1, 5>> /\ TimesFlagged(1) = 0

Smaller(a, b) == IF a < b THEN a ELSE b

\* What the scan says about a player when the run it counts is n.
StreakRule(eid, n) ==
  /\ TimesFlagged(eid) = (IF n >= LowPointsStreakLen THEN 1 ELSE 0)
  /\ n >= LowPointsStreakLen => FlaggedWith(eid, n)
  /\ ChronScores(eid) = <<5, 0, 1>> => FlaggedWith(eid, 2)
  /\ ChronScores(eid) = <<>> => TimesFlagged(eid) = 0

\* C19 as stated: the count is the number of consecutive gameweeks, going back
\* from the newest recorded one, with a score <= the threshold, up to the
\* first score above it; the player is flagged iff the count is >= the
\* minimum length; newest-first [1, 0, 5] is flagged with 2, and a player
\* without history is never flagged.
C19_TrailingRun ==
  StreakServed =>
    \A eid \in PickedIds : StreakRule(eid, TrailingRun(ChronScores(eid)))

\* C19: the count is the number of consecutive gameweeks, going back from
\* the newest recorded one and no further than the newest max(3, minimum
\* length + 1) records, with a score <= the threshold, up to the first score
\* above it; the player is flagged iff the count is >= the minimum length;
\* newest-first [1, 0, 5] is flagged with 2, and a player without history is
\* never flagged.
C19_RecentRun ==
  StreakServed =>
    \A eid \in PickedIds :
      StreakRule(eid, Smaller(TrailingRun(ChronScores(eid)), RecentN))

\* Four low scores in a row, reported as a streak of three.
C19_Witness ==
  /\ StreakServed
  /\ ChronScores(1) = <<1, 0, 1, 2>>
  /\ FlaggedWith(1, RecentN)
  /\ TrailingRun(ChronScores(1)) > RecentN

ScenarioNewestFirstMet ==
  StreakServed /\ ChronScores(1) = <<5, 0, 1>> /\ FlaggedWith(1, 2)

NoHistoryNotFlaggedMet ==
  /\ StreakServed
  /\ 1 \in PickedIds
  /\ ChronScores(1) = <<>>
  /\ TimesFlagged(1) = 0
  /\ TimesFlagged(2) = 1

(***************************************************************************)
(* The current gameweek: GET /entry/current_event.                         *)
(***************************************************************************)
MaxEvents == 3

\* The flags a gameweek of the catalogue may carry.
EventFlags ==
  { <<FALSE, FALSE, FALSE>>, <<TRUE, FALSE, FALSE>>, <<FALSE, TRUE, FALSE>>,
    <<FALSE, FALSE, TRUE>>, <<TRUE, FALSE, TRUE>> }

\* Gameweeks 1..n listed in any order, each with its flags.
EventLists ==
  UNION { { [k \in 1..n |-> Event(ids[k], fl[k][1], fl[k][2], fl[k][3])] :
              ids \in {f \in [1..n -> 1..n] : \A a, b \in 1..n : f[a] = f[b] => a = b},
              fl \in [1..n -> EventFlags] } : n \in 0..MaxEvents }

EventAnswers == {FetchFailed} \cup { [ok |-> TRUE, events |-> es] : es \in EventLists }

CallCurrentEvent ==
  \E b \in EventAnswers :
    /\ pc = "idle"
    /\ pc' = "called"
    /\ op' = "current_event"
    /\ req' = Nothing
    /\ up' = [bootstrap |-> b]
    /\ UNCHANGED <<resp, log, lp, frame>>

ServeCurrentEvent ==
  /\ pc = "called"
  /\ op = "current_event"
  /\ resp' = IF ~up.bootstrap.ok THEN [status |-> 500, detail |-> "HTTPError"]
             ELSE [status |-> 200,
                   body |-> [current_event |-> get_current_event(up.bootstrap)]]
  /\ log' = <<"bootstrap-static">>
  /\ pc' = "done"
  /\ UNCHANGED <<op, req, up, lp, frame>>

NextCurrentEvent ==
  \/ CallCurrentEvent
  \/ ServeCurrentEvent
  \/ Finish

SpecCurrentEvent == Init /\ [][NextCurrentEvent]_vars

CurrentEventDone == pc = "done" /\ op = "current_event" /\ up.bootstrap.ok

\* The places in the list of the gameweeks that carry a flag.
Places(flag) == {k \in DOMAIN up.bootstrap.events : up.bootstrap.events[k][flag]}

First(S) == CHOOSE k \in S : \A j \in S : k <= j
Last(S) == CHOOSE k \in S : \A j \in S : k >= j

\* C16: get_current_event returns the id of the gameweek flagged current; if
\* none is, of the one flagged next; if none is, of the finished gameweek
\* listed last; and no value when no gameweek is current, next or finished.
C16_CurrentEvent ==
  CurrentEventDone =>
    /\ resp.status = 200
    /\ resp.body.current_event =
         IF Places("is_current") # {}
           THEN Some(up.bootstrap.events[First(Places("is_current"))].id)
         ELSE IF Places("is_next") # {}
           THEN Some(up.bootstrap.events[First(Places("is_next"))].id)
         ELSE IF Places("finished") # {}
           THEN Some(up.bootstrap.events[Last(Places("finished"))].id)
         ELSE NoneVal

\* Two finished gameweeks and none current or next: the later one is returned.
C16_Witness ==
  /\ CurrentEventDone
  /\ Places("is_current") = {}
  /\ Places("is_next") = {}
  /\ Cardinality(Places("finished")) = 2
  /\ \A k \in DOMAIN up.bootstrap.events : up.bootstrap.events[k].id = k
  /\ resp.body.current_event = Some(Last(Places("finished")))

\* A gameweek both current and finished beside a next one: the current one.
CurrentBeforeNextMet ==
  /\ CurrentEventDone
  /\ \E k \in Places("is_current") \cap Places("finished") :
       resp.body.current_event = Some(up.bootstrap.events[k].id)
  /\ Places("is_next") # {}

NoEventMet ==
  /\ CurrentEventDone
  /\ up.bootstrap.events # <<>>
  /\ resp.body.current_event = NoneVal

(***************************************************************************)
(* The insights endpoint when building the tables fails.                   *)
(***************************************************************************)
\* The picks were fetched and are not empty.
InsightsWithPicks ==
  InsightsDone /\ ~IsNone(InsightsGw) /\ up.picks.ok /\ up.picks.picks # <<>>

\* The exception the table builders raise on this upstream, if any.
BuildException ==
  IF LookupFails(up.bootstrap) THEN Some("RuntimeError")
  ELSE IF FutureStatsFails(up.picks.picks, up) THEN Some("ValueError")
  ELSE NoneVal

\* C17: for a manager with non-empty picks, an exception raised while
\* building the enriched or future table or generating the insights makes the
\* insights endpoint answer HTTP 500 with the exception in the detail and no
\* list of insights, partial or whole; without an exception the answer is
\* 200 with all six insights.
C17_FailureIs500 ==
  InsightsWithPicks =>
    IF IsNone(BuildException)
      THEN resp.status = 200 /\ Len(resp.body) = 6
    ELSE /\ resp.status = 500
         /\ resp.detail = BuildException[1]
         /\ "body" \notin DOMAIN resp

\* The future table fails on a pick the catalogue does not hold, after the
\* enriched table was built and its histories fetched.
C17_Witness ==
  /\ InsightsWithPicks
  /\ BuildException = Some("ValueError")
  /\ resp.status = 500
  /\ \E k \in DOMAIN log : log[k] = "element-summary"

CatalogueFailureMet ==
  /\ InsightsWithPicks
  /\ BuildException = Some("RuntimeError")
  /\ resp.status = 500

(***************************************************************************)
(* The optimizer's "brought in" variables.                                 *)
(***************************************************************************)
\* C18: in every solution of the solver a catalogue player's "brought in"
\* variable is 1 exactly when the player is not owned and is in the new squad,
\* so the reported transfer_in list is exactly the non-owned members of the
\* new squad.
C18_BroughtInIsNewMember ==
  OptimizeSucceeded =>
    LET df == up.bootstrap.elements
        incoming == Incoming(df, lp.squad, OwnedIds)
    IN /\ lp.transfer_in = incoming
       /\ {resp.body.transfer_in[k].id : k \in DOMAIN resp.body.transfer_in} =
            {df[i].id : i \in incoming}

\* What lines 246-250 do force: a non-owned member of the new squad is brought
\* in, and an owned player never is.
BroughtInCoversNewMembers ==
  OptimizeSucceeded =>
    LET df == up.bootstrap.elements
    IN /\ Incoming(df, lp.squad, OwnedIds) \subseteq lp.transfer_in
       /\ \A i \in lp.transfer_in : df[i].id \notin OwnedIds

\* A solution that keeps the whole squad and still reports a player brought in.
StrayBroughtInMet ==
  /\ OptimizeSucceeded
  /\ Incoming(up.bootstrap.elements, lp.squad, OwnedIds) = {}
  /\ resp.body.transfer_in # <<>>
  /\ resp.body.transfer_out = <<>>

(***************************************************************************)
(* The batched history fetch, one request at a time:                       *)
(* FPLEntryService.fetch_element_summaries and enrichment's                *)
(* get_element_summaries (with _get_json and the default session).         *)
(***************************************************************************)
MaxBatch == 2        \* longest list of ids asked for
MaxPlayerId == 3     \* ids asked for are 1..MaxPlayerId

Attempts == 3        \* range(3), and the default session's _retries

BatchFunctions == {"fetch_element_summaries", "get_element_summaries"}

IdLists == UNION { [1..n -> 1..MaxPlayerId] : n \in 0..MaxBatch }

\* A pause that does not grow with the attempt.
FlatBackoff(fn, attempt) == Rat(6, 10)

\* The pause after failed attempt number attempt (counted from 0).
Backoff(fn, attempt) ==
  IF fn = "fetch_element_summaries" THEN RMul(Rat(6, 10), Whole(attempt + 1))
  ELSE RMul(Rat(5, 10), Whole(2 ^ attempt))

SleepBetween == Rat(35, 100)

Get(eid, ok) == [kind |-> "get", eid |-> eid, ok |-> ok]
Sleep(secs) == [kind |-> "sleep", secs |-> secs]

\* What /element-summary/{id}/ answers, and the record of a player given up on.
Summary(eid) == [history |-> <<eid>>]
EmptyRecord == [history |-> <<>>]

\* out[eid] = v
Put(out, eid, v) == [k \in DOMAIN out \cup {eid} |-> IF k = eid THEN v ELSE out[k]]

CallFetchSummaries ==
  \E fn \in BatchFunctions, ids \in IdLists :
    /\ pc = "idle"
    /\ pc' = "running"
    /\ op' = fn
    /\ req' = [element_ids |-> ids]
    /\ frame' = [todo |-> SortedSeq(SeqToSet(ids)), attempt |-> 0, out |-> <<>>]
    /\ UNCHANGED <<up, resp, log, lp>>

\* A request that is answered: the record is kept and the next player follows.
AttemptSucceeds ==
  /\ pc = "running"
  /\ frame.todo # <<>>
  /\ LET eid == Head(frame.todo) IN
     /\ log' = log \o <<Get(eid, TRUE), Sleep(SleepBetween)>>
     /\ frame' = [todo |-> Tail(frame.todo), attempt |-> 0,
                  out |-> Put(frame.out, eid, Summary(eid))]
  /\ UNCHANGED <<pc, op, req, up, resp, lp>>

\* A request that fails: a pause and another attempt, or, after the last
\* attempt, an empty record and the next player.
AttemptFails ==
  /\ pc = "running"
  /\ frame.todo # <<>>
  /\ LET eid == Head(frame.todo) IN
     IF frame.attempt = Attempts - 1
       THEN /\ log' = log \o <<Get(eid, FALSE), Sleep(SleepBetween)>>
            /\ frame' = [todo |-> Tail(frame.todo), attempt |-> 0,
                         out |-> Put(frame.out, eid, EmptyRecord)]
       ELSE /\ log' = log \o <<Get(eid, FALSE), Sleep(Backoff(op, frame.attempt))>>
            /\ frame' = [frame EXCEPT !.attempt = frame.attempt + 1]
  /\ UNCHANGED <<pc, op, req, up, resp, lp>>

ReturnSummaries ==
  /\ pc = "running"
  /\ frame.todo = <<>>
  /\ pc' = "done"
  /\ resp' = [status |-> 200, body |-> frame.out]
  /\ UNCHANGED <<op, req, up, log, lp, frame>>

NextBatch ==
  \/ CallFetchSummaries
  \/ AttemptSucceeds
  \/ AttemptFails
  \/ ReturnSummaries
  \/ Finish

SpecBatch == Init /\ [][NextBatch]_vars

BatchDone == pc = "done" /\ op \in BatchFunctions

\* The places in the log of the requests made for a player, in order.
Requests(eid) ==
  SelectSeq([i \in DOMAIN log |-> i],
            LAMBDA i : log[i].kind = "get" /\ log[i].eid = eid)

\* The pauses taken after the failed requests for a player that another
\* request for the same player follows.
Pauses(eid) ==
  LET rq == Requests(eid)
  IN [k \in 1..(Len(rq) - 1) |-> log[rq[k] + 1].secs]

\* C20: the batched history fetch returns one record per distinct id asked
\* for; each player is requested at most 3 times, with a longer pause after
\* each failure, and no more once a request succeeded; a player whose 3
\* requests all failed gets an empty record, and the other players are still
\* fetched: the batch returns and does not raise.
C20_BatchFetch ==
  BatchDone =>
    /\ resp.status = 200
    /\ DOMAIN resp.body = SeqToSet(req.element_ids)
    /\ \A eid \in SeqToSet(req.element_ids) :
         LET rq == Requests(eid) IN
         /\ Len(rq) \in 1..3
         /\ \A k \in 1..(Len(rq) - 1) :
              /\ ~log[rq[k]].ok
              /\ log[rq[k] + 1].kind = "sleep"
              /\ rq[k + 1] = rq[k] + 2
         /\ \A k \in 1..(Len(Pauses(eid)) - 1) :
              RLt(Pauses(eid)[k], Pauses(eid)[k + 1])
         /\ IF log[rq[Len(rq)]].ok THEN resp.body[eid] = Summary(eid)
            ELSE Len(rq) = 3 /\ resp.body[eid] = EmptyRecord

\* While the batch runs, the records kept are those of the players done with.
BatchKeepsGoing ==
  (pc = "running" /\ op \in BatchFunctions) =>
    DOMAIN frame.out \cup SeqToSet(frame.todo) = SeqToSet(req.element_ids)

\* A player given up on after three requests with two growing pauses, and a
\* later player fetched at the second request.
C20_Witness ==
  /\ BatchDone
  /\ \E a, b \in SeqToSet(req.element_ids) :
       /\ a < b
       /\ Len(Requests(a)) = 3
       /\ resp.body[a] = EmptyRecord
       /\ Len(Pauses(a)) = 2
       /\ Len(Requests(b)) = 2
       /\ resp.body[b] = Summary(b)

\* The same id asked for twice is fetched once.
DuplicateIdsMet ==
  /\ BatchDone
  /\ Len(req.element_ids) = 2
  /\ req.element_ids[1] = req.element_ids[2]
  /\ Len(Requests(req.element_ids[1])) = 1
  /\ Len(log) = 2

(***************************************************************************)
(* BootstrapCache.get, one statement at a time, for one caller and for     *)
(* callers that interleave.  frame is the cache object (_data, _ts, and    *)
(* which fetch the timestamp was stored with), up is the environment (the  *)
(* clock and the number of upstream fetches made), and pc, req, lp, resp   *)
(* hold each caller's position, its local now, the catalogue it fetched    *)
(* and the value it returned.                                              *)
(***************************************************************************)
MaxTicks == 3        \* times the clock advances
MaxFetches == 3      \* upstream fetches made

Ttl == 600           \* ttl_seconds

TickSteps == {Ttl \div 2, (Ttl \div 2) + 1}

Callers == {1, 2}

\* What get_bootstrap returns: the JSON of fetch number version, which may be
\* an empty object; started is the clock when the fetch was made.
Payload(version, started, empty) ==
  [version |-> version, started |-> started, empty |-> empty]

\* not self._data
NoData(data) == IsNone(data) \/ data[1].empty

\* A test that treats a catalogue of exactly ttl seconds as stale.
StaleAtTtl(cache, now) == NoData(cache.data) \/ (now - cache.ts) >= Ttl

\* Line 15: not self._data or (now - self._ts) > self._ttl
Stale(cache, now) == NoData(cache.data) \/ (now - cache.ts) > Ttl

CacheInit ==
  /\ pc = [t \in Callers |-> "idle"]
  /\ op = "BootstrapCache.get"
  /\ req = [t \in Callers |-> Nothing]
  /\ lp = [t \in Callers |-> Nothing]
  /\ resp = [t \in Callers |-> Nothing]
  /\ frame = [data |-> NoneVal, ts |-> 0, ts_version |-> 0]
  /\ up = [clock |-> 1, ticks |-> 0, fetches |-> 0]
  /\ log = <<>>

\* Lines 14-15: now = time.time() and the test.
Begin(t) ==
  /\ pc[t] = "idle"
  /\ req' = [req EXCEPT ![t] = [now |-> up.clock, fetched |-> FALSE,
                                seen |-> frame.data]]
  /\ pc' = [pc EXCEPT ![t] = IF Stale(frame, up.clock) THEN "fetch" ELSE "return"]
  /\ UNCHANGED <<op, up, resp, log, lp, frame>>

\* Line 16, right-hand side: get_bootstrap() answers.
FetchReturns(t) ==
  /\ pc[t] = "fetch"
  /\ up.fetches < MaxFetches
  /\ \E empty \in BOOLEAN :
       lp' = [lp EXCEPT ![t] = Some(Payload(up.fetches + 1, up.clock, empty))]
  /\ up' = [up EXCEPT !.fetches = up.fetches + 1]
  /\ req' = [req EXCEPT ![t].fetched = TRUE]
  /\ pc' = [pc EXCEPT ![t] = "store_data"]
  /\ UNCHANGED <<op, resp, log, frame>>

\* Line 16, right-hand side: get_bootstrap() raises; get() raises with it.
FetchRaises(t) ==
  /\ pc[t] = "fetch"
  /\ up.fetches < MaxFetches
  /\ up' = [up EXCEPT !.fetches = up.fetches + 1]
  /\ req' = [req EXCEPT ![t].fetched = TRUE]
  /\ resp' = [resp EXCEPT ![t] = [raised |-> TRUE, exc |-> "RuntimeError"]]
  /\ pc' = [pc EXCEPT ![t] = "done"]
  /\ UNCHANGED <<op, log, lp, frame>>

\* Line 16: self._data = ...
StoreData(t) ==
  /\ pc[t] = "store_data"
  /\ frame' = [frame EXCEPT !.data = lp[t]]
  /\ pc' = [pc EXCEPT ![t] = "store_ts"]
  /\ UNCHANGED <<op, req, up, resp, log, lp>>

\* Line 17: self._ts = now
StoreTs(t) ==
  /\ pc[t] = "store_ts"
  /\ frame' = [frame EXCEPT !.ts = req[t].now, !.ts_version = lp[t][1].version]
  /\ pc' = [pc EXCEPT ![t] = "return"]
  /\ UNCHANGED <<op, req, up, resp, log, lp>>

\* Line 18: return self._data
Return(t) ==
  /\ pc[t] = "return"
  /\ resp' = [resp EXCEPT ![t] = [raised |-> FALSE, value |-> frame.data]]
  /\ pc' = [pc EXCEPT ![t] = "done"]
  /\ UNCHANGED <<op, req, up, log, lp, frame>>

\* The caller goes on and may call again.
Leave(t) ==
  /\ pc[t] = "done"
  /\ pc' = [pc EXCEPT ![t] = "idle"]
  /\ req' = [req EXCEPT ![t] = Nothing]
  /\ lp' = [lp EXCEPT ![t] = Nothing]
  /\ resp' = [resp EXCEPT ![t] = Nothing]
  /\ UNCHANGED <<op, up, log, frame>>

\* Time passes.
Tick ==
  /\ up.ticks < MaxTicks
  /\ \E d \in TickSteps : up' = [up EXCEPT !.clock = up.clock + d,
                                           !.ticks = up.ticks + 1]
  /\ UNCHANGED <<pc, op, req, resp, log, lp, frame>>

\* One caller: the calls follow one another.
NextCacheSequential ==
  \/ Begin(1)
  \/ FetchReturns(1)
  \/ FetchRaises(1)
  \/ StoreData(1)
  \/ StoreTs(1)
  \/ Return(1)
  \/ Leave(1)
  \/ Tick

SpecCacheSequential == CacheInit /\ [][NextCacheSequential]_vars

\* Callers on several threads: their statements interleave.  The first
\* caller calls again and again, the others call once.
NextCacheConcurrent ==
  \/ \E t \in Callers : Begin(t)
  \/ \E t \in Callers : FetchReturns(t)
  \/ \E t \in Callers : FetchRaises(t)
  \/ \E t \in Callers : StoreData(t)
  \/ \E t \in Callers : StoreTs(t)
  \/ \E t \in Callers : Return(t)
  \/ Leave(1)
  \/ Tick

SpecCacheConcurrent == CacheInit /\ [][NextCacheConcurrent]_vars

\* A catalogue is cached, and it is no more than window seconds old.
CachedAndFresh(window) ==
  /\ ~IsNone(frame.data)
  /\ ~frame.data[1].empty
  /\ up.clock - frame.ts <= window

\* C21: in a sequential run of get() calls, a call fetches from upstream if
\* and only if no catalogue is cached yet or the cached one is older than the
\* freshness window of 600 seconds; otherwise it returns the cached catalogue
\* unchanged without fetching; and a fetch that raises leaves the cached data
\* and the timestamp as they were.
C21_FetchIffStale ==
  [][ /\ (pc[1] = "idle" /\ pc'[1] # "idle") =>
           /\ pc'[1] = "fetch" <=> ~CachedAndFresh(600)
           /\ UNCHANGED <<frame, up>>
      /\ up'.fetches # up.fetches => pc[1] = "fetch"
      /\ (pc[1] = "return" /\ pc'[1] = "done") =>
           /\ resp'[1] = [raised |-> FALSE, value |-> frame.data]
           /\ UNCHANGED <<frame, up>>
           /\ ~req[1].fetched => frame.data = req[1].seen
      /\ (pc[1] = "fetch" /\ pc'[1] = "done") =>
           /\ resp'[1].raised
           /\ UNCHANGED frame
    ]_vars

\* A catalogue exactly 600 seconds old, returned without a fetch.
C21_Witness ==
  /\ pc[1] = "done"
  /\ ~resp[1].raised
  /\ ~req[1].fetched
  /\ req[1].now - frame.ts = 600
  /\ resp[1].value = frame.data
  /\ up.fetches = 1

\* A catalogue 601 seconds old, fetched again; and a fetch that raised over a
\* cached catalogue.
RefetchedWhenOlderMet ==
  /\ pc[1] = "done"
  /\ ~resp[1].raised
  /\ req[1].fetched
  /\ ~NoData(req[1].seen)
  /\ req[1].now - req[1].seen[1].started = 601

RaisedOverCachedMet ==
  /\ pc[1] = "done"
  /\ resp[1].raised
  /\ ~NoData(frame.data)
  /\ frame.data = req[1].seen

\* No caller is between its test and its second assignment.
NoRefreshInProgress ==
  \A t \in Callers : pc[t] \notin {"fetch", "store_data", "store_ts"}

\* Every value returned is a catalogue some fetch produced.
ReturnsFetchedCatalogue ==
  \A t \in Callers :
    (pc[t] = "done" /\ ~resp[t].raised) =>
      /\ ~IsNone(resp[t].value)
      /\ resp[t].value[1].version \in 1..up.fetches

\* The timestamp was stored by the call that stored the data.
TimestampOfSameCall ==
  (NoRefreshInProgress /\ ~IsNone(frame.data)) =>
    frame.ts_version = frame.data[1].version

\* A catalogue found fresh was fetched no more than 600 seconds before.
FreshWithinWindow ==
  \A t \in Callers :
    (pc[t] = "return" /\ ~req[t].fetched) =>
      req[t].now - req[t].seen[1].started <= 600

\* C27: under every interleaving of concurrent get() calls on one cache, each
\* call returns a complete catalogue produced by some fetch; whenever no
\* refresh is in progress the stored timestamp is the one taken by the call
\* that stored the cached data; and cached data is never served as fresh more
\* than the freshness window after the start of the fetch that produced it.
C27_ConcurrentCache ==
  /\ ReturnsFetchedCatalogue
  /\ TimestampOfSameCall
  /\ FreshWithinWindow

\* Data of one call under the timestamp of a later call, served when it is
\* older than the window.
StaleServedFreshMet ==
  /\ NoRefreshInProgress
  /\ ~IsNone(frame.data)
  /\ frame.ts_version # frame.data[1].version
  /\ \E t \in Callers :
       /\ pc[t] = "return"
       /\ ~req[t].fetched
       /\ req[t].now - req[t].seen[1].started > 600

(***************************************************************************)
(* build_current_gw_stats applied to a non-empty picks list.               *)
(***************************************************************************)
\* The histories of the league, and one with two matches in the current week.
GwHistories ==
  Histories \cup {<<Hist(CurrentGw - 1, 90, 2, TRUE), Hist(CurrentGw, 60, 3, TRUE),
                    Hist(CurrentGw, 90, 7, FALSE)>>}

GwSummaryTables ==
  { [i \in 1..MaxPicks |-> IF i = 1 THEN s1 ELSE IF i = 2 THEN SecondSummary
                                              ELSE RestSummary] :
      s1 \in {FetchFailed} \cup {[ok |-> TRUE, history |-> h] : h \in GwHistories} }

GwUpstreams ==
  { [picks |-> pk, bootstrap |-> bs, summaries |-> sm, fixtures |-> fx] :
      pk \in {a \in LeaguePicksAnswers : a.ok /\ a.picks # <<>>},
      bs \in LeagueAnswers, sm \in GwSummaryTables,
      fx \in {[ev \in (CurrentGw + 1)..(CurrentGw + MaxHorizon + 1) |->
                 [ok |-> TRUE, rows |-> <<>>]]} }

CurrentGwStatsInputs ==
  \E gw \in {CurrentGw - 1, CurrentGw}, u \in GwUpstreams :
    /\ pc = "idle"
    /\ pc' = "called"
    /\ op' = "build_current_gw_stats"
    /\ req' = [gw |-> Some(gw)]
    /\ up' = u
    /\ UNCHANGED <<resp, log, lp, frame>>

ApplyBuildCurrentGwStats ==
  /\ pc = "called"
  /\ op = "build_current_gw_stats"
  /\ resp' = IF LookupFails(up.bootstrap)
               THEN [status |-> 500, detail |-> "RuntimeError"]
             ELSE [status |-> 200,
                   body |-> build_current_gw_stats(up.picks.picks, req.gw, up)]
  /\ log' = IF LookupFails(up.bootstrap) THEN <<"bootstrap-static">>
            ELSE CurrentGwFetches(up.picks.picks)
  /\ pc' = "done"
  /\ UNCHANGED <<op, req, up, lp, frame>>

NextCurrentGwStats ==
  \/ CurrentGwStatsInputs
  \/ ApplyBuildCurrentGwStats
  \/ Finish

SpecCurrentGwStats == Init /\ [][NextCurrentGwStats]_vars

\* The enriched table was built: the catalogue could be read.
EnrichedBuilt ==
  pc = "done" /\ op = "build_current_gw_stats" /\ ~LookupFails(up.bootstrap)

\* The records the upstream holds for a player in the gameweek asked for.
RecordsInGw(eid) ==
  IF eid \in DOMAIN up.summaries /\ up.summaries[eid].ok
    THEN {j \in DOMAIN up.summaries[eid].history :
            up.summaries[eid].history[j].round = req.gw[1]}
  ELSE {}

\* The row carries what the catalogue says about the player.
CarriesMetadata(row) ==
  \A i \in DOMAIN up.bootstrap.elements :
    up.bootstrap.elements[i].id = row.element =>
      /\ row.web_name = up.bootstrap.elements[i].web_name
      /\ row.now_cost = up.bootstrap.elements[i].now_cost
      /\ row.team = Some(up.bootstrap.elements[i].team)

\* C22: a squad entry whose history is empty, or has no record for the
\* gameweek asked for, gets a row with 0 minutes and 0 points for that
\* gameweek, joined with the player's catalogue metadata; the build does not
\* fail and does not drop the player.
C22_Placeholder ==
  EnrichedBuilt =>
    /\ resp.status = 200
    /\ \A k \in DOMAIN up.picks.picks :
         RecordsInGw(up.picks.picks[k].element) = {} =>
           \E j \in DOMAIN resp.body :
             /\ resp.body[j].element = up.picks.picks[k].element
             /\ resp.body[j].multiplier = up.picks.picks[k].multiplier
             /\ resp.body[j].minutes = 0
             /\ resp.body[j].points = 0
             /\ resp.body[j].gw = req.gw
             /\ CarriesMetadata(resp.body[j])
             /\ \A i \in DOMAIN resp.body :
                  resp.body[i].element = resp.body[j].element => i = j

\* A player with a history but no record for the week, one whose fetch failed
\* and one the catalogue does not hold, each with a placeholder row.
C22_Witness ==
  /\ EnrichedBuilt
  /\ up.summaries[1].ok
  /\ up.summaries[1].history # <<>>
  /\ RecordsInGw(1) = {}
  /\ Len(up.picks.picks) > 1
  /\ \E j \in DOMAIN resp.body :
       resp.body[j].element = 1 /\ resp.body[j].minutes = 0 /\ resp.body[j].points = 0

FailedFetchPlaceholderMet ==
  /\ EnrichedBuilt
  /\ ~up.summaries[1].ok
  /\ \E j \in DOMAIN resp.body :
       resp.body[j].element = 1 /\ resp.body[j].minutes = 0
         /\ resp.body[j].web_name = 1

UnknownPlayerPlaceholderMet ==
  /\ EnrichedBuilt
  /\ \E j \in DOMAIN resp.body :
       resp.body[j].element \notin DOMAIN up.summaries /\ resp.body[j].minutes = 0
         /\ IsNone(resp.body[j].team)

\* C29: the enriched table has exactly one row per squad entry, in pick
\* order, whatever the picks and the histories are, a player with more than
\* one record for the gameweek asked for included.
C29_OneRowPerEntry ==
  EnrichedBuilt =>
    /\ Len(resp.body) = Len(up.picks.picks)
    /\ \A k \in DOMAIN resp.body :
         /\ resp.body[k].element = up.picks.picks[k].element
         /\ resp.body[k].multiplier = up.picks.picks[k].multiplier

\* One row per entry when no player has two records for the gameweek.
OneRowPerEntryInSingleWeeks ==
  (EnrichedBuilt /\ \A k \in DOMAIN up.picks.picks :
                      Cardinality(RecordsInGw(up.picks.picks[k].element)) <= 1) =>
    /\ Len(resp.body) = Len(up.picks.picks)
    /\ \A k \in DOMAIN resp.body : resp.body[k].element = up.picks.picks[k].element

\* One squad entry, two rows.
TwoRowsForOneEntryMet ==
  /\ EnrichedBuilt
  /\ Len(up.picks.picks) = 1
  /\ Len(resp.body) = 2
  /\ resp.body[1].points # resp.body[2].points

(***************************************************************************)
(* The differentials scan of the insights endpoint.                        *)
(***************************************************************************)
\* An answer with the six insights; the differentials are the sixth.
InsightsServed == InsightsDone /\ resp.status = 200 /\ Len(resp.body) = 6

DifferentialNames ==
  {resp.body[6].items[k].name : k \in DOMAIN resp.body[6].items}

\* The player's ownership percentage as the catalogue gives it.
Ownership(eid) ==
  LET hit == SelectSeq(up.bootstrap.elements, LAMBDA e : e.id = eid)
  IN FillNa(ToNumeric(hit[1].selected_by_percent), Zero)

\* Is the pick a differential, given the table of the future fixtures: the
\* mean of the player's listed difficulties is known when there is one.
IsDifferential(eid, future) ==
  LET row == SelectSeq(future, LAMBDA f : f.element = eid)[1]
      n == Len(row.next_fdr)
  IN /\ RLe(Ownership(eid), Whole(10))
     /\ n > 0
     /\ RLe(Rat(SumF(row.next_fdr, 1..n), n), Whole(3))

\* As the scan reads the table: by its mean column.
IsDifferentialByColumn(eid, future) ==
  LET row == SelectSeq(future, LAMBDA f : f.element = eid)[1]
  IN /\ RLe(Ownership(eid), Whole(10))
     /\ ~IsNaN(row.avg_fdr_nextN)
     /\ RLe(row.avg_fdr_nextN, Whole(3))

DifferentialsAre(Rule(_, _)) ==
  LET future == build_future_stats(up.picks.picks, InsightsGw[1] + 1, req.horizon, up)
  IN \A k \in DOMAIN up.picks.picks :
       (up.picks.picks[k].element \in DifferentialNames)
         <=> Rule(up.picks.picks[k].element, future)

\* C23: the differentials scan lists a squad player if and only if the
\* player's ownership is <= 10 and the mean of the player's next-N fixture
\* difficulties is known and <= 3.0; a player whose mean is missing counts as
\* 5.0 and is never listed.
C23_Differentials == InsightsServed => DifferentialsAre(IsDifferential)

\* The scan does what C23 says of the mean column it is given.
DifferentialsByColumn == InsightsServed => DifferentialsAre(IsDifferentialByColumn)

\* And what C23 says outright when the horizon has at least one fixture.
DifferentialsWithFixtures ==
  (InsightsServed
     /\ get_fixtures_for_events(up, Events(InsightsGw[1] + 1, req.horizon)) # <<>>)
  => DifferentialsAre(IsDifferential)

\* No fixtures at all, and a player listed as a differential with good fixtures.
DifferentialWithoutFixturesMet ==
  /\ InsightsServed
  /\ get_fixtures_for_events(up, Events(InsightsGw[1] + 1, req.horizon)) = <<>>
  /\ 1 \in DifferentialNames

\* A player with ownership exactly 10 listed, and a player without fixtures
\* beside fixtures of others not listed.
OwnershipBoundaryMet ==
  /\ InsightsServed
  /\ get_fixtures_for_events(up, Events(InsightsGw[1] + 1, req.horizon)) # <<>>
  /\ Ownership(1) = Whole(10)
  /\ 1 \in DifferentialNames
  /\ Len(up.picks.picks) = 3
  /\ 3 \notin DifferentialNames

(***************************************************************************)
(* get_fixtures_for_events applied to a list of gameweeks.                 *)
(***************************************************************************)
HorizonWeeks == (CurrentGw + 1)..(CurrentGw + MaxHorizon + 1)

\* What /fixtures/?event=ev answers after the retries of _get_json.
WeekAnswers(ev) ==
  { FetchFailed, [ok |-> TRUE, rows |-> <<>>],
    [ok |-> TRUE, rows |-> <<Fx(ev, 2 * ev, 1, 2, 2, 4), Fx(ev, 2 * ev + 1, 3, 1, 3, 5)>>] }

WeekTables == { f \in [HorizonWeeks -> UNION {WeekAnswers(ev) : ev \in HorizonWeeks}] :
                  \A ev \in HorizonWeeks : f[ev] \in WeekAnswers(ev) }

\* The gameweeks asked for, in any order, repeated or not.
WeekLists == UNION { [1..n -> HorizonWeeks] : n \in 0..(MaxHorizon + 1) }

FixturesInputs ==
  \E events \in WeekLists, f \in WeekTables :
    /\ pc = "idle"
    /\ pc' = "called"
    /\ op' = "get_fixtures_for_events"
    /\ req' = [events |-> events]
    /\ up' = [fixtures |-> f]
    /\ UNCHANGED <<resp, log, lp, frame>>

ApplyGetFixturesForEvents ==
  /\ pc = "called"
  /\ op = "get_fixtures_for_events"
  /\ resp' = [status |-> 200,
              body |-> get_fixtures_for_events(up, SeqToSet(req.events))]
  /\ log' = Times(Cardinality(SeqToSet(req.events)), "fixtures")
  /\ pc' = "done"
  /\ UNCHANGED <<op, req, up, lp, frame>>

NextFixtures ==
  \/ FixturesInputs
  \/ ApplyGetFixturesForEvents
  \/ Finish

SpecFixtures == Init /\ [][NextFixtures]_vars

FixturesDone == pc = "done" /\ op = "get_fixtures_for_events"

\* The gameweeks asked for whose fetch succeeded.
FetchedWeeks == {ev \in SeqToSet(req.events) : up.fixtures[ev].ok}

\* C24: get_fixtures_for_events returns the fixture records of every
\* gameweek asked for whose fetch succeeded; a gameweek whose fetch fails is
\* skipped, without aborting or raising; and when every gameweek fails the
\* result is an empty table.
C24_FixturesOfFetchedWeeks ==
  FixturesDone =>
    /\ resp.status = 200
    /\ \A ev \in FetchedWeeks :
         \A j \in DOMAIN up.fixtures[ev].rows :
           Cardinality({k \in DOMAIN resp.body :
                          resp.body[k] = up.fixtures[ev].rows[j]}) = 1
    /\ \A k \in DOMAIN resp.body :
         /\ resp.body[k].event \in FetchedWeeks
         /\ \E j \in DOMAIN up.fixtures[resp.body[k].event].rows :
              up.fixtures[resp.body[k].event].rows[j] = resp.body[k]
    /\ FetchedWeeks = {} => resp.body = <<>>

\* A failed gameweek between two fetched ones: both come back.
C24_Witness ==
  /\ FixturesDone
  /\ Cardinality(SeqToSet(req.events)) = 3
  /\ Cardinality(FetchedWeeks) = 2
  /\ Len(resp.body) = 4

EveryWeekFailedMet ==
  /\ FixturesDone
  /\ Cardinality(SeqToSet(req.events)) > 1
  /\ FetchedWeeks = {}
  /\ resp.body = <<>>

\* A gameweek asked for twice is fetched once.
RepeatedWeekMet ==
  /\ FixturesDone
  /\ Len(req.events) = 2
  /\ req.events[1] = req.events[2]
  /\ Len(resp.body) = 2

(***************************************************************************)
(* The optimizer called for a squad that is itself legal.                  *)
(***************************************************************************)
\* The catalogue rows of the manager's current players.
CurrentSquad == {i \in Index(up.bootstrap.elements) :
                   up.bootstrap.elements[i].id \in OwnedIds}

\* Fifteen distinct picks, every one a catalogue player.
FifteenCataloguePlayers ==
  /\ Len(up.picks.picks) = 15
  /\ Cardinality(OwnedIds) = 15
  /\ OwnedIds \subseteq CatalogueIds(up.bootstrap.elements)

CurrentSquadLegal ==
  /\ FifteenCataloguePlayers
  /\ LegalSquad(up.bootstrap.elements, CurrentSquad, Budget)

\* C25: when the manager's current squad is itself legal (15 catalogue
\* players, quotas 2/5/5/3, at most 3 of a club) and its price is within
\* value + bank, optimize_transfer reports "success" and the new squad's
\* projected points are at least the current squad's.
C25_LegalSquadSucceeds ==
  (OptimizeSolved /\ CurrentSquadLegal) =>
    /\ OptimizeSucceeded
    /\ Objective(up.bootstrap.elements, lp.squad) >=
         Objective(up.bootstrap.elements, CurrentSquad)

\* A squad that costs exactly value + bank, kept as it is.
C25_Witness ==
  /\ OptimizeSolved
  /\ CurrentSquadLegal
  /\ Cost(up.bootstrap.elements, CurrentSquad) = Budget
  /\ OptimizeSucceeded
  /\ lp.squad = CurrentSquad

LegalSquadImprovedMet ==
  /\ OptimizeSucceeded
  /\ CurrentSquadLegal
  /\ Objective(up.bootstrap.elements, lp.squad) >
       Objective(up.bootstrap.elements, CurrentSquad)

\* C26: on "success" for a current squad of 15 distinct catalogue players the
\* number of reported outgoing players equals the number of reported incoming
\* players, both are at most 1, and at least 14 current players remain in the
\* new squad.
C26_OneForOne ==
  (OptimizeSucceeded /\ FifteenCataloguePlayers) =>
    /\ Len(resp.body.transfer_out) = Len(resp.body.transfer_in)
    /\ Len(resp.body.transfer_in) <= 1
    /\ Len(resp.body.transfer_out) <= 1
    /\ Cardinality(CurrentSquad \cap lp.squad) >= 14

\* What holds of every solution: no more leave than are reported coming in.
AtMostOneEachWay ==
  (OptimizeSucceeded /\ FifteenCataloguePlayers) =>
    /\ Len(resp.body.transfer_out) <= Len(resp.body.transfer_in)
    /\ Len(resp.body.transfer_in) <= 1
    /\ Cardinality(CurrentSquad \cap lp.squad) >= 14
    /\ Len(resp.body.transfer_out) = 15 - Cardinality(CurrentSquad \cap lp.squad)

\* C26 for the solutions whose "brought in" variables are the new members.
OneForOneWithoutStray ==
  (/\ OptimizeSucceeded
   /\ FifteenCataloguePlayers
   /\ lp.transfer_in = Incoming(up.bootstrap.elements, lp.squad, OwnedIds))
  => /\ Len(resp.body.transfer_out) = Len(resp.body.transfer_in)
     /\ Len(resp.body.transfer_in) <= 1
     /\ Cardinality(CurrentSquad \cap lp.squad) >= 14

\* Nobody leaves, one player is reported coming in.
InWithoutOutMet ==
  /\ OptimizeSucceeded
  /\ FifteenCataloguePlayers
  /\ Len(resp.body.transfer_in) = 1
  /\ resp.body.transfer_out = <<>>

\* A real exchange: one out, one in.
OneOutOneInMet ==
  /\ OptimizeSucceeded
  /\ FifteenCataloguePlayers
  /\ Len(resp.body.transfer_in) = 1
  /\ Len(resp.body.transfer_out) = 1

(***************************************************************************)
(* build_future_stats applied to a squad's picks.                          *)
(***************************************************************************)
FutureStatsInputs ==
  \E ps \in LeaguePickLists, bs \in LeagueAnswers, fx \in FixtureTables,
     horizon \in 0..MaxHorizon :
    /\ pc = "idle"
    /\ pc' = "called"
    /\ op' = "build_future_stats"
    /\ req' = [start_gw |-> CurrentGw + 1, horizon |-> horizon]
    /\ up' = [picks |-> ps, bootstrap |-> bs, fixtures |-> fx]
    /\ UNCHANGED <<resp, log, lp, frame>>

ApplyBuildFutureStats ==
  /\ pc = "called"
  /\ op = "build_future_stats"
  /\ resp' = IF LookupFails(up.bootstrap)
               THEN [status |-> 500, detail |-> "RuntimeError"]
             ELSE IF FutureStatsFails(up.picks, up)
               THEN [status |-> 500, detail |-> "ValueError"]
             ELSE [status |-> 200,
                   body |-> build_future_stats(up.picks, req.start_gw, req.horizon, up)]
  /\ log' = IF LookupFails(up.bootstrap) \/ FutureStatsFails(up.picks, up)
              THEN <<"bootstrap-static">>
            ELSE FutureFetches(req.start_gw, req.horizon)
  /\ pc' = "done"
  /\ UNCHANGED <<op, req, up, lp, frame>>

NextFutureStats ==
  \/ FutureStatsInputs
  \/ ApplyBuildFutureStats
  \/ Finish

SpecFutureStats == Init /\ [][NextFutureStats]_vars

\* The future table was built for a horizon of at least one gameweek.
FutureBuilt ==
  /\ pc = "done"
  /\ op = "build_future_stats"
  /\ resp.status = 200
  /\ req.horizon >= 1

\* The fixture records the upstream gave for the gameweeks of the horizon.
FetchedFixtures ==
  UNION { SeqToSet(up.fixtures[ev].rows) :
            ev \in {e \in req.start_gw..(req.start_gw + req.horizon - 1) :
                      up.fixtures[e].ok} }

\* Entry k of the row's sequences describes fixture f from the club's side.
DescribesFixture(row, k, f) ==
  \/ /\ f.team_h = row.team
     /\ row.next_is_home[k]
     /\ row.next_opponents[k] = [short |-> f.team_a]
     /\ row.next_fdr[k] = f.team_h_difficulty
  \/ /\ f.team_a = row.team
     /\ ~row.next_is_home[k]
     /\ row.next_opponents[k] = [short |-> f.team_h]
     /\ row.next_fdr[k] = f.team_a_difficulty

\* The sequences are of one length, at most the horizon, and describe distinct
\* fixtures of the club in ascending gameweek order.
SequencesInOrder(row) ==
  LET n == Len(row.next_fdr) IN
  /\ Len(row.next_opponents) = n
  /\ Len(row.next_is_home) = n
  /\ n <= req.horizon
  /\ \E fs \in [1..n -> FetchedFixtures] :
       /\ \A k \in 1..n : DescribesFixture(row, k, fs[k])
       /\ \A j, k \in 1..n : j < k => fs[j] # fs[k] /\ fs[j].event <= fs[k].event

\* The sum of the difficulty sequence.
SumOfSequence(row) == SumF(row.next_fdr, DOMAIN row.next_fdr)

\* The reported sum and mean are those of the sequence; an empty sequence has
\* the sum 0 and no mean.
SumAndMeanOfSequence(row) ==
  /\ row.sum_fdr_nextN = Some(SumOfSequence(row))
  /\ IF row.next_fdr = <<>> THEN IsNaN(row.avg_fdr_nextN)
     ELSE row.avg_fdr_nextN = Rat(SumOfSequence(row), Len(row.next_fdr))

\* C28: for every player in the table built by build_future_stats with horizon
\* N >= 1, the opponent, venue and difficulty sequences have the same length,
\* at most N, in ascending gameweek order, each difficulty is the home-side
\* rating when the club is at home and the away-side rating when away, and the
\* reported sum and mean are the sum and mean of the difficulty sequence.
C28_FixtureRunSequences ==
  FutureBuilt =>
    \A k \in DOMAIN resp.body :
      /\ SequencesInOrder(resp.body[k])
      /\ SumAndMeanOfSequence(resp.body[k])

\* The sequences themselves are as the claim says, for every player.
SequencesAsStated ==
  FutureBuilt => \A k \in DOMAIN resp.body : SequencesInOrder(resp.body[k])

\* Sum and mean are those of the sequence wherever the sequence is not empty.
SumAndMeanOfKnownFixtures ==
  FutureBuilt =>
    \A k \in DOMAIN resp.body :
      resp.body[k].next_fdr # <<>> => SumAndMeanOfSequence(resp.body[k])

\* No fixture row fetched: a mean of 0.0 is reported for an empty sequence.
MeanOfNothingMet ==
  /\ FutureBuilt
  /\ FetchedFixtures = {}
  /\ \E k \in DOMAIN resp.body :
       /\ resp.body[k].next_fdr = <<>>
       /\ resp.body[k].avg_fdr_nextN = Zero

\* A club without a fixture beside clubs with one: no sum is reported.
SumMissingMet ==
  /\ FutureBuilt
  /\ \E k \in DOMAIN resp.body :
       /\ resp.body[k].next_fdr = <<>>
       /\ IsNone(resp.body[k].sum_fdr_nextN)

\* Three fixtures in two gameweeks, cut at a horizon of two.
CutAtHorizonMet ==
  /\ FutureBuilt
  /\ req.horizon = 2
  /\ Cardinality({f \in FetchedFixtures : f.team_h = 1 \/ f.team_a = 1}) = 3
  /\ \E k \in DOMAIN resp.body :
       /\ resp.body[k].team = 1
       /\ resp.body[k].next_fdr = <<2, 5>>
       /\ resp.body[k].next_is_home = <<TRUE, FALSE>>

(***************************************************************************)
(* One fetch with its retries, one request at a time: FPLEntryService._get *)
(* (behind get_entry_picks and _get_bootstrap_data) and enrichment's       *)
(* _get_json with the default session (behind get_bootstrap).              *)
(***************************************************************************)
FetchCallers == {"get_entry_picks", "_get_bootstrap_data", "get_bootstrap"}

\* The function that sends the caller's requests.
Fetcher(caller) == IF caller = "get_bootstrap" THEN "_get_json" ELSE "_get"

UrlOf(caller) == IF caller = "get_entry_picks" THEN "picks" ELSE "bootstrap-static"

\* What a request can come to: a 2xx answer, an HTTP error status, or an
\* exception of the connection (refused, reset, timed out).
RequestOutcomes == {"ok", "status", "connection"}

\* The upstream's answers to the requests of one fetch, should they be sent.
OutcomePlans == [1..Attempts -> RequestOutcomes]

\* r.json() of the answer to request number n.
Body(url, n) == [url |-> url, served |-> n]

\* The pause of _get after failed attempt number attempt (counted from 0).
GetBackoff(attempt) == RMul(Rat(7, 10), Whole(attempt + 1))

CallFetch ==
  \E caller \in FetchCallers, plan \in OutcomePlans :
    /\ pc = "idle"
    /\ pc' = "called"
    /\ op' = caller
    /\ req' = [url |-> UrlOf(caller)]
    /\ up' = [outcomes |-> plan]
    /\ frame' = [attempt |-> 0]
    /\ UNCHANGED <<resp, log, lp>>

Fetching == pc = "called" /\ op \in FetchCallers /\ frame.attempt < Attempts

\* The request is answered with a 2xx status: the body is returned.
RequestAnswered ==
  /\ Fetching
  /\ up.outcomes[frame.attempt + 1] = "ok"
  /\ log' = log \o <<Get(req.url, TRUE)>>
  /\ resp' = [raised |-> FALSE, value |-> Body(req.url, frame.attempt + 1)]
  /\ pc' = "done"
  /\ UNCHANGED <<op, req, up, lp, frame>>

\* _get_json: the except branch of lines 26-29.
GetJsonFailed ==
  IF frame.attempt = Attempts - 1
    THEN /\ log' = log \o <<Get(req.url, FALSE)>>
         /\ resp' = [raised |-> TRUE, exc |-> "RuntimeError"]
         /\ pc' = "done"
         /\ UNCHANGED frame
  ELSE /\ log' = log \o <<Get(req.url, FALSE),
                          Sleep(Backoff("get_element_summaries", frame.attempt))>>
       /\ frame' = [attempt |-> frame.attempt + 1]
       /\ UNCHANGED <<resp, pc>>

\* The request is answered with an HTTP error status.
RequestRefused ==
  /\ Fetching
  /\ up.outcomes[frame.attempt + 1] = "status"
  /\ IF Fetcher(op) = "_get"
       THEN /\ log' = log \o <<Get(req.url, FALSE), Sleep(GetBackoff(frame.attempt))>>
            /\ IF frame.attempt = Attempts - 1
                 THEN /\ resp' = [raised |-> TRUE, exc |-> "HTTPError"]
                      /\ pc' = "done"
                      /\ UNCHANGED frame
               ELSE /\ frame' = [attempt |-> frame.attempt + 1]
                    /\ UNCHANGED <<resp, pc>>
     ELSE GetJsonFailed
  /\ UNCHANGED <<op, req, up, lp>>

\* The request raises an exception of the connection.
RequestBroke ==
  /\ Fetching
  /\ up.outcomes[frame.attempt + 1] = "connection"
  /\ IF Fetcher(op) = "_get"
       THEN /\ log' = log \o <<Get(req.url, FALSE)>>
            /\ resp' = [raised |-> TRUE, exc |-> "ConnectionError"]
            /\ pc' = "done"
            /\ UNCHANGED frame
     ELSE GetJsonFailed
  /\ UNCHANGED <<op, req, up, lp>>

NextFetch ==
  \/ CallFetch
  \/ RequestAnswered
  \/ RequestRefused
  \/ RequestBroke
  \/ Finish

SpecFetch == Init /\ [][NextFetch]_vars

\* The requests a fetch has sent so far.
RequestsSent == SelectSeq(log, LAMBDA e : e.kind = "get")

FetchDone == pc = "done" /\ op \in FetchCallers

\* The attempts the upstream would answer with a 2xx status.
GoodAttempts == {n \in 1..Attempts : up.outcomes[n] = "ok"}

FirstGood == CHOOSE n \in GoodAttempts : \A m \in GoodAttempts : n <= m

\* At most three requests, none after a success; at the end, the body of the
\* first attempt that succeeds, or an error after three failures.
RetriesUntilSuccess ==
  /\ Len(RequestsSent) <= Attempts
  /\ \A k \in DOMAIN RequestsSent : RequestsSent[k].ok => k = Len(RequestsSent)
  /\ FetchDone =>
       IF GoodAttempts # {}
         THEN /\ ~resp.raised
              /\ resp.value = Body(req.url, FirstGood)
              /\ Len(RequestsSent) = FirstGood
       ELSE /\ resp.raised
            /\ Len(RequestsSent) = Attempts

\* C30: a catalogue or manager-squad fetch issues at most 3 requests and stops
\* at the first success; when the first or second attempt fails transiently
\* (an HTTP error status or a connection exception) and a later attempt
\* succeeds, the fetch returns the successful payload; only after 3 failed
\* attempts does it raise an error to the caller.
C30_RetriesTransientFailures ==
  (pc # "idle" /\ op \in FetchCallers) => RetriesUntilSuccess

\* The same for the fetches of _get_json, and for those of _get that meet no
\* exception of the connection before their first success.
RetriesHttpErrors ==
  (/\ pc # "idle"
   /\ op \in FetchCallers
   /\ \/ Fetcher(op) = "_get_json"
      \/ \A n \in 1..Attempts :
           up.outcomes[n] = "connection" => (GoodAttempts # {} /\ FirstGood < n))
  => RetriesUntilSuccess

\* The squad fetch gives up at a first request that times out, though the
\* second would have been answered.
GaveUpAtFirstExceptionMet ==
  /\ FetchDone
  /\ op = "get_entry_picks"
  /\ up.outcomes[1] = "connection"
  /\ up.outcomes[2] = "ok"
  /\ resp.raised
  /\ Len(RequestsSent) = 1

\* An error status, then an answer: the second body is returned.
RetriedAfterStatusMet ==
  /\ FetchDone
  /\ op = "get_entry_picks"
  /\ up.outcomes[1] = "status"
  /\ up.outcomes[2] = "ok"
  /\ ~resp.raised
  /\ resp.value = Body("picks", 2)

\* The catalogue fetch of enrichment.py rides out an exception.
RetriedAfterExceptionMet ==
  /\ FetchDone
  /\ op = "get_bootstrap"
  /\ up.outcomes[1] = "connection"
  /\ up.outcomes[2] = "status"
  /\ up.outcomes[3] = "ok"
  /\ ~resp.raised
  /\ resp.value = Body("bootstrap-static", 3)

====
